---- MODULE Spec2Model ----
(***************************************************************************)
(* Model of the backtest driver of mock_investing (main.run_backtest), the *)
(* execution engine (exec_engine), the portfolio/trade records (models),   *)
(* the trade ledger (storage.append_trade) and the strategies it calls.    *)
(*                                                                         *)
(* Python floats are modelled as exact rationals [n, d] in lowest terms,   *)
(* so that sums, products and quotients are computed as the code computes  *)
(* them and equal values have equal representations.                       *)
(***************************************************************************)
EXTENDS Integers, Sequences, FiniteSets, TLC

(***************************************************************************)
(* Bounds of the model.                                                    *)
(***************************************************************************)
\* longest price series that is replayed (len(df))
MaxBars == 4

\* the length of the rising series of the end-to-end run
RisingBars == 30

\* the most results the file holds in the sink specification
MaxResults == 4

(***************************************************************************)
(* Rational arithmetic (the float operators of the source).                *)
(***************************************************************************)
Abs(x) == IF x < 0 THEN -x ELSE x

RECURSIVE GCD(_, _)
GCD(a, b) == IF b = 0 THEN a ELSE GCD(b, a % b)

\* the rational n/d (d > 0) in lowest terms
R(n, d) ==
    LET g == GCD(Abs(n), d)
    IN  [n |-> n \div g, d |-> d \div g]

RInt(i) == [n |-> i, d |-> 1]

Zero == RInt(0)
One == RInt(1)

RNeg(a) == [n |-> -a.n, d |-> a.d]

RAdd(a, b) ==
    LET g == GCD(a.d, b.d)
    IN  R(a.n * (b.d \div g) + b.n * (a.d \div g), (a.d \div g) * b.d)

RSub(a, b) == RAdd(a, RNeg(b))

RMul(a, b) ==
    LET g1 == GCD(Abs(a.n), b.d)
        g2 == GCD(Abs(b.n), a.d)
    IN  [n |-> (a.n \div g1) * (b.n \div g2), d |-> (a.d \div g2) * (b.d \div g1)]

\* a / b for b # 0
RDiv(a, b) ==
    RMul(a, IF b.n > 0 THEN [n |-> b.d, d |-> b.n] ELSE [n |-> -b.d, d |-> -b.n])

RLt(a, b) ==
    LET g == GCD(a.d, b.d)
    IN  a.n * (b.d \div g) < b.n * (a.d \div g)

\* Python's min(a, b): the first argument unless the second is smaller
RMin(a, b) == IF RLt(b, a) THEN b ELSE a

(***************************************************************************)
(* Program constants.                                                      *)
(***************************************************************************)
\* slippage_rate = 0.001 (main.py)
slippage_rate == R(1, 1000)

\* can_execute multiplies the cooldown by 1000 (seconds to milliseconds)
MsPerSec == 1000

\* a BUY signal needs at least this much cash
MinBuyCash == 1000

\* main.py line 76: the smallest balance a run starts with
MinRunBalance == 10000

\* the absent value returned by the indicators (Python None)
None == [n |-> 0, d |-> 0]

\* pending_signal = None
NoPending == <<>>

(***************************************************************************)
(* Inputs of a run.                                                        *)
(***************************************************************************)
\* price levels of the replayed bars
Prices == {1, 2, 4}

\* account balances a run starts from (1001 * 1001, at least 10000)
InitialCashValues == {1002001}

\* fee rates entered by the user (fraction in [0,1))
FeeRates == {Zero, R(1, 2)}

\* cooldown periods entered by the user (whole days)
Cooldowns == {0, 1}

\* order ratios entered by the user (fraction in (0,1])
OrderRatios == {R(1, 2), One}

\* SMACrossover(fast, slow)
SMACrossover(fast, slow) ==
    [kind |-> "SMA", name |-> "SMA", fast |-> fast, slow |-> slow]

\* MomentumStrategy(period, threshold)
MomentumStrategy(period, threshold) ==
    [kind |-> "Momentum", name |-> "Momentum", period |-> period,
     threshold |-> threshold]

\* EMACrossover(fast, slow)
EMACrossover(fast, slow) ==
    [kind |-> "EMA", name |-> "EMA", fast |-> fast, slow |-> slow]

\* RSIStrategy(period, oversold, overbought)
RSIStrategy(period, oversold, overbought) ==
    [kind |-> "RSI", name |-> "RSI", period |-> period,
     oversold |-> oversold, overbought |-> overbought]

\* MACDStrategy(fast, slow, signal)
MACDStrategy(fast, slow, signal) ==
    [kind |-> "MACD", name |-> "MACD", fast |-> fast, slow |-> slow,
     signal |-> signal]

\* BollingerBandsStrategy(period, num_std)
BollingerBandsStrategy(period, num_std) ==
    [kind |-> "Bollinger", name |-> "Bollinger", period |-> period,
     num_std |-> num_std]

\* a Strategy subclass outside the six shipped ones: decide may return any string
PluggableStrategy == [kind |-> "Pluggable", name |-> "Pluggable"]

\* the strategies create_strategy builds in the model
Strategies == {SMACrossover(1, 2), MomentumStrategy(2, R(1, 50))}

\* the six variants of create_strategy, with short windows
ShippedStrategies ==
    Strategies \cup {EMACrossover(1, 2), RSIStrategy(2, 30, 70),
                     MACDStrategy(1, 2, 2), BollingerBandsStrategy(2, R(1, 2))}

\* the data frames: bar k opens at the close of bar k-1 (the first at its own close)
Bar(closes, k) ==
    [Open |-> RInt(IF k = 1 THEN closes[1] ELSE closes[k - 1]),
     Close |-> RInt(closes[k])]

DataFrames ==
    UNION { { [k \in 1..n |-> Bar(closes, k)] : closes \in [1..n -> Prices] }
            : n \in 1..MaxBars }

(***************************************************************************)
(* State of one run of run_backtest.                                       *)
(***************************************************************************)
VARIABLES
    df,                   \* the downloaded bars (Open, Close), bar idx is df[idx + 1]
    strategy,             \* the strategy object
    initial_cash,         \* account balance the run starts from
    fee_rate,
    cooldown_sec,
    order_ratio,
    portfolio,            \* Portfolio: cash, asset_qty, last_price, last_trade_ts
    trades,               \* the run's trade log
    portfolio_values,     \* the equity curve
    trade_count,
    buy_signals,
    sell_signals,
    blocked_by_cooldown,
    blocked_by_no_asset,
    blocked_by_no_cash,
    pending_signal,       \* NoPending or <<action, signal_idx>>
    idx,                  \* loop variable: index of the bar being processed (0-based)
    pc,                   \* position in run_backtest
    ledger,               \* the rows of trades.csv, <<>> when there is no file
    fail_log,             \* the failed fills printed by the except clause
    history,              \* the content of backtest_history.json
    balance,              \* the cash of the account (account.json)
    total_deposit,        \* account.json: total_deposit
    total_withdrawal,     \* account.json: total_withdrawal
    objects,              \* the parameter dictionaries in memory, by reference
    configs,              \* per manager: NoManager, or strategy name -> reference
    config_file,          \* strategy_config.json: NoFile, or name -> parameters
    last_call             \* the last call made from a menu, with what it returned

inputs == <<df, strategy, initial_cash, fee_rate, cooldown_sec, order_ratio>>

counters == <<buy_signals, sell_signals, blocked_by_cooldown,
              blocked_by_no_asset, blocked_by_no_cash>>

sinks == <<history, balance>>

\* the state of the session outside run_backtest and the results file
session == <<total_deposit, total_withdrawal, objects, configs, config_file,
             last_call>>

vars == <<df, strategy, initial_cash, fee_rate, cooldown_sec, order_ratio,
          portfolio, trades, portfolio_values, trade_count, buy_signals,
          sell_signals, blocked_by_cooldown, blocked_by_no_asset,
          blocked_by_no_cash, pending_signal, idx, pc, ledger, fail_log,
          history, balance, total_deposit, total_withdrawal, objects, configs,
          config_file, last_call>>

(***************************************************************************)
(* models.py                                                               *)
(***************************************************************************)
\* Portfolio.__init__
Portfolio(cash) ==
    [cash |-> cash, asset_qty |-> Zero, last_price |-> Zero, last_trade_ts |-> 0]

\* faulty variant of equity: the held quantity is not valued
EquityCashOnly(pf) == pf.cash

\* Portfolio.equity
equity(pf) == RAdd(pf.cash, RMul(pf.asset_qty, pf.last_price))

\* Trade.__init__
Trade(ts, side, price, qty, fee, rule_name) ==
    [ts |-> ts, side |-> side, price |-> price, qty |-> qty, fee |-> fee,
     rule_name |-> rule_name]

(***************************************************************************)
(* exec_engine.py                                                          *)
(***************************************************************************)
\* faulty variant of can_execute: the cooldown is not looked at
CanExecuteNoCooldown(now_ts, last_trade_ts, cooldown) == TRUE

\* faulty variant of can_execute: the comparison is strict
CanExecuteStrict(now_ts, last_trade_ts, cooldown) ==
    LET diff_ms == now_ts - last_trade_ts
    IN  diff_ms > cooldown * MsPerSec

\* can_execute
can_execute(now_ts, last_trade_ts, cooldown) ==
    LET diff_ms == now_ts - last_trade_ts
    IN  diff_ms >= cooldown * MsPerSec

\* faulty variant of ExecuteBuy: the fee is not taken from the cash
ExecuteBuyNoFee(pf, price, fee, order_cash) ==
    LET cash_to_use == RMin(order_cash, pf.cash)
        qty == RDiv(cash_to_use, price)
        fee_paid == RMul(RMul(price, qty), fee)
    IN  [pf |-> [pf EXCEPT !.cash = RSub(pf.cash, cash_to_use),
                           !.asset_qty = RAdd(pf.asset_qty, qty)],
         qty |-> qty, fee |-> fee_paid]

\* the portfolio after a BUY, and the quantity and fee of the fill
ExecuteBuy(pf, price, fee, order_cash) ==
    LET cash_to_use == RMin(order_cash, pf.cash)
        qty == RDiv(cash_to_use, price)
        fee_paid == RMul(RMul(price, qty), fee)
    IN  [pf |-> [pf EXCEPT !.cash = RSub(RSub(pf.cash, cash_to_use), fee_paid),
                           !.asset_qty = RAdd(pf.asset_qty, qty)],
         qty |-> qty, fee |-> fee_paid]

\* faulty variant of ExecuteSell: half of the position is kept
ExecuteSellHalf(pf, price, fee) ==
    LET qty == RMul(pf.asset_qty, R(1, 2))
        cash_gain == RMul(price, qty)
        fee_paid == RMul(cash_gain, fee)
    IN  [pf |-> [pf EXCEPT !.cash = RSub(RAdd(pf.cash, cash_gain), fee_paid),
                           !.asset_qty = RSub(pf.asset_qty, qty)],
         qty |-> qty, fee |-> fee_paid]

\* faulty variant of ExecuteSell: the position stays in the portfolio
ExecuteSellKeepsPosition(pf, price, fee) ==
    LET qty == pf.asset_qty
        cash_gain == RMul(price, qty)
        fee_paid == RMul(cash_gain, fee)
    IN  [pf |-> [pf EXCEPT !.cash = RSub(RAdd(pf.cash, cash_gain), fee_paid)],
         qty |-> qty, fee |-> fee_paid]

\* the portfolio after a SELL, and the quantity and fee of the fill
ExecuteSell(pf, price, fee) ==
    LET qty == pf.asset_qty
        cash_gain == RMul(price, qty)
        fee_paid == RMul(cash_gain, fee)
    IN  [pf |-> [pf EXCEPT !.cash = RSub(RAdd(pf.cash, cash_gain), fee_paid),
                           !.asset_qty = Zero],
         qty |-> qty, fee |-> fee_paid]

\* faulty variant of execute_market: a side that is not BUY is handled as a SELL
ExecuteMarketElseSell(pf, side, price, now_ts, fee, order_cash, rule_name) ==
    LET fill == IF side = "BUY" THEN ExecuteBuy(pf, price, fee, order_cash)
                ELSE ExecuteSell(pf, price, fee)
    IN  [raised |-> FALSE,
         pf |-> [fill.pf EXCEPT !.last_price = price, !.last_trade_ts = now_ts],
         trade |-> Trade(now_ts, side, price, fill.qty, fill.fee, rule_name)]

\* execute_market: raised = TRUE stands for the ValueError; otherwise pf is the
\* updated portfolio and trade the returned Trade
execute_market(pf, side, price, now_ts, fee, order_cash, rule_name) ==
    IF side \in {"BUY", "SELL"}
    THEN LET fill == IF side = "BUY" THEN ExecuteBuy(pf, price, fee, order_cash)
                     ELSE ExecuteSell(pf, price, fee)
         IN  [raised |-> FALSE,
              pf |-> [fill.pf EXCEPT !.last_price = price, !.last_trade_ts = now_ts],
              trade |-> Trade(now_ts, side, price, fill.qty, fill.fee, rule_name)]
    ELSE [raised |-> TRUE, pf |-> pf]

(***************************************************************************)
(* indicators.py and strategies.py                                         *)
(***************************************************************************)
\* prices[-window:] for window >= 0: the whole list when it is not longer
LastN(prices, window) ==
    IF window = 0 \/ window >= Len(prices) THEN prices
    ELSE SubSeq(prices, Len(prices) - window + 1, Len(prices))

\* total = 0.0; for p in s: total = total + p
RECURSIVE Total(_)
Total(s) ==
    IF s = <<>> THEN Zero
    ELSE RAdd(Total(SubSeq(s, 1, Len(s) - 1)), s[Len(s)])

\* faulty variant of compute_sma: a list of exactly window prices gives no average
ComputeSmaLateGuard(prices, window) ==
    IF Len(prices) <= window THEN None
    ELSE RDiv(Total(LastN(prices, window)), RInt(window))

compute_sma(prices, window) ==
    IF Len(prices) < window THEN None
    ELSE RDiv(Total(LastN(prices, window)), RInt(window))

\* faulty variant of SMADecide: equal averages give BUY
SMADecideTieBuys(s, prices) ==
    LET fast_sma == compute_sma(prices, s.fast)
        slow_sma == compute_sma(prices, s.slow)
    IN  IF fast_sma = None \/ slow_sma = None THEN "KEEP"
        ELSE IF ~RLt(fast_sma, slow_sma) THEN "BUY"
        ELSE "SELL"

\* SMACrossover.decide
SMADecide(s, prices) ==
    LET fast_sma == compute_sma(prices, s.fast)
        slow_sma == compute_sma(prices, s.slow)
    IN  IF fast_sma = None \/ slow_sma = None THEN "KEEP"
        ELSE IF RLt(slow_sma, fast_sma) THEN "BUY"
        ELSE IF RLt(fast_sma, slow_sma) THEN "SELL"
        ELSE "KEEP"

\* rules.py decide_action (its compute_sma, lines 10-30, is the same code as
\* the one of indicators.py)
decide_action(prices, fast, slow) ==
    LET fast_now == compute_sma(prices, fast)
        slow_now == compute_sma(prices, slow)
    IN  IF fast_now = None \/ slow_now = None THEN "KEEP"
        ELSE IF RLt(slow_now, fast_now) THEN "BUY"
        ELSE IF RLt(fast_now, slow_now) THEN "SELL"
        ELSE "KEEP"

\* MomentumStrategy.decide
MomentumDecide(s, prices) ==
    IF Len(prices) < s.period + 1 THEN "KEEP"
    ELSE LET base == prices[Len(prices) - s.period]
             momentum == RDiv(RSub(prices[Len(prices)], base), base)
         IN  IF RLt(s.threshold, momentum) THEN "BUY"
             ELSE IF RLt(momentum, RNeg(s.threshold)) THEN "SELL"
             ELSE "KEEP"

\* compute_ema, lines 55-56: the update of the average by the later prices
RECURSIVE EmaFold(_, _, _)
EmaFold(ema, rest, multiplier) ==
    IF rest = <<>> THEN ema
    ELSE EmaFold(RAdd(RMul(rest[1], multiplier),
                      RMul(ema, RSub(One, multiplier))),
                 Tail(rest), multiplier)

compute_ema(prices, window) ==
    IF Len(prices) < window THEN None
    ELSE IF Len(prices) = window THEN compute_sma(prices, window)
    ELSE LET multiplier == RDiv(RInt(2), RInt(window + 1))
             ema == compute_sma(SubSeq(prices, 1, window), window)
         IN  EmaFold(ema, SubSeq(prices, window + 1, Len(prices)), multiplier)

\* EMACrossover.decide
EMADecide(s, prices) ==
    LET fast_ema == compute_ema(prices, s.fast)
        slow_ema == compute_ema(prices, s.slow)
    IN  IF fast_ema = None \/ slow_ema = None THEN "KEEP"
        ELSE IF RLt(slow_ema, fast_ema) THEN "BUY"
        ELSE IF RLt(fast_ema, slow_ema) THEN "SELL"
        ELSE "KEEP"

\* faulty variant of RsiValue: rises are booked as losses and falls as gains
RsiValueSwapped(prices, window) ==
    LET change(i) == RSub(prices[i + 1], prices[i])
        gains == [i \in 1..Len(prices) - 1 |->
                    IF RLt(Zero, change(i)) THEN Zero ELSE RNeg(change(i))]
        losses == [i \in 1..Len(prices) - 1 |->
                     IF RLt(Zero, change(i)) THEN change(i) ELSE Zero]
        avg_gain == RDiv(Total(LastN(gains, window)), RInt(window))
        avg_loss == RDiv(Total(LastN(losses, window)), RInt(window))
    IN  IF avg_loss = Zero THEN RInt(100)
        ELSE LET rs == RDiv(avg_gain, avg_loss)
             IN  RSub(RInt(100), RDiv(RInt(100), RAdd(One, rs)))

\* compute_rsi, lines 76-98: the index from the last window changes
RsiValue(prices, window) ==
    LET change(i) == RSub(prices[i + 1], prices[i])
        gains == [i \in 1..Len(prices) - 1 |->
                    IF RLt(Zero, change(i)) THEN change(i) ELSE Zero]
        losses == [i \in 1..Len(prices) - 1 |->
                     IF RLt(Zero, change(i)) THEN Zero ELSE RNeg(change(i))]
        avg_gain == RDiv(Total(LastN(gains, window)), RInt(window))
        avg_loss == RDiv(Total(LastN(losses, window)), RInt(window))
    IN  IF avg_loss = Zero THEN RInt(100)
        ELSE LET rs == RDiv(avg_gain, avg_loss)
             IN  RSub(RInt(100), RDiv(RInt(100), RAdd(One, rs)))

\* faulty variant of compute_rsi: the length guard is off by one
ComputeRsiShortGuard(prices, window) ==
    IF Len(prices) < window THEN None ELSE RsiValue(prices, window)

compute_rsi(prices, window) ==
    IF Len(prices) < window + 1 THEN None ELSE RsiValue(prices, window)

\* RSIStrategy.decide
RSIDecide(s, prices) ==
    LET rsi == compute_rsi(prices, s.period)
    IN  IF rsi = None THEN "KEEP"
        ELSE IF RLt(rsi, RInt(s.oversold)) THEN "BUY"
        ELSE IF RLt(RInt(s.overbought), rsi) THEN "SELL"
        ELSE "KEEP"

\* the truth value of an indicator result: None and 0.0 are false
Truthy(x) == x # None /\ x # Zero

\* compute_macd, lines 131-136: the MACD values of the prefixes of length
\* slow + 1 up to upto
RECURSIVE MacdValues(_, _, _, _)
MacdValues(prices, fast, slow, upto) ==
    IF upto <= slow THEN <<>>
    ELSE LET macd_values == MacdValues(prices, fast, slow, upto - 1)
             ema_f == compute_ema(SubSeq(prices, 1, upto), fast)
             ema_s == compute_ema(SubSeq(prices, 1, upto), slow)
         IN  IF Truthy(ema_f) /\ Truthy(ema_s)
             THEN Append(macd_values, RSub(ema_f, ema_s))
             ELSE macd_values

\* compute_macd: None, or the MACD line and the signal line
compute_macd(prices, fast, slow, signal) ==
    IF Len(prices) < slow + signal THEN None
    ELSE LET ema_fast == compute_ema(prices, fast)
             ema_slow == compute_ema(prices, slow)
             macd_values == MacdValues(prices, fast, slow, Len(prices))
         IN  IF ema_fast = None \/ ema_slow = None THEN None
             ELSE IF Len(macd_values) < signal THEN None
             ELSE [macd |-> RSub(ema_fast, ema_slow),
                   signal |-> compute_sma(macd_values, signal)]

\* MACDStrategy.decide
MACDDecide(s, prices) ==
    LET macd_data == compute_macd(prices, s.fast, s.slow, s.signal)
    IN  IF macd_data = None THEN "KEEP"
        ELSE IF RLt(macd_data.signal, macd_data.macd) THEN "BUY"
        ELSE IF RLt(macd_data.macd, macd_data.signal) THEN "SELL"
        ELSE "KEEP"

\* compute_bollinger_bands: None, or the middle band and the variance; the
\* bands are middle +- num_std * variance ** 0.5, whose root is not taken here
compute_bollinger_bands(prices, window, num_std) ==
    IF Len(prices) < window THEN None
    ELSE LET middle == compute_sma(prices, window)
             window_prices == LastN(prices, window)
             squares == [k \in 1..Len(window_prices) |->
                           RMul(RSub(window_prices[k], middle),
                                RSub(window_prices[k], middle))]
         IN  [middle |-> middle,
              variance |-> RDiv(Total(squares), RInt(window)),
              num_std |-> num_std]

\* distance > num_std * variance ** 0.5 for num_std >= 0, compared on the squares
BeyondBand(distance, bb) ==
    /\ RLt(Zero, distance)
    /\ RLt(RMul(RMul(bb.num_std, bb.num_std), bb.variance),
           RMul(distance, distance))

\* BollingerBandsStrategy.decide
BollingerDecide(s, prices) ==
    LET bb == compute_bollinger_bands(prices, s.period, s.num_std)
    IN  IF bb = None \/ Len(prices) = 0 THEN "KEEP"
        ELSE LET current_price == prices[Len(prices)]
             IN  IF BeyondBand(RSub(bb.middle, current_price), bb) THEN "BUY"
                 ELSE IF BeyondBand(RSub(current_price, bb.middle), bb) THEN "SELL"
                 ELSE "KEEP"

\* what a Strategy subclass outside the shipped ones may return
PluggableActions == {"BUY", "SELL", "KEEP", "HOLD"}

\* strategy.decide(prices): the values the call may return
decide(s, prices) ==
    IF s.kind = "SMA" THEN {SMADecide(s, prices)}
    ELSE IF s.kind = "Momentum" THEN {MomentumDecide(s, prices)}
    ELSE IF s.kind = "EMA" THEN {EMADecide(s, prices)}
    ELSE IF s.kind = "RSI" THEN {RSIDecide(s, prices)}
    ELSE IF s.kind = "MACD" THEN {MACDDecide(s, prices)}
    ELSE IF s.kind = "Bollinger" THEN {BollingerDecide(s, prices)}
    ELSE PluggableActions

(***************************************************************************)
(* storage.py                                                              *)
(***************************************************************************)
\* the row append_trade writes for a trade
LedgerRow(trade) ==
    <<trade.ts, trade.side, trade.price, trade.qty, trade.fee, trade.rule_name>>

\* the header row append_trade writes into a new file (line 27)
LedgerHeader == <<"ts", "side", "price", "qty", "fee", "rule">>

\* a row is the header row when its second cell is the column name
IsHeaderRow(row) == row[2] = "side"

\* faulty variant of append_trade: the header is written on every call
AppendTradeAlwaysHeader(rows, trade) ==
    rows \o <<LedgerHeader, LedgerRow(trade)>>

\* append_trade on a ledger that can be written (lines 12-33): the header is
\* written first when the file does not exist
append_trade(rows, trade) ==
    IF rows = <<>>
    THEN <<LedgerHeader, LedgerRow(trade)>>
    ELSE Append(rows, LedgerRow(trade))

\* the data rows of a ledger file (read_trades, lines 36-55)
DataRows(rows) == SubSeq(rows, 2, Len(rows))

(***************************************************************************)
(* strategy_config.py: the parameter dictionaries are objects; a manager's *)
(* configs maps a strategy name to a reference, and so does the module's   *)
(* DEFAULT_CONFIGS (the description entry of a dictionary is left out).    *)
(***************************************************************************)
StrategyNames == {"SMA Crossover", "RSI Strategy"}

\* lines 18-185: the parameter values DEFAULT_CONFIGS is written with
DocumentedDefaults ==
    [name \in StrategyNames |->
        IF name = "SMA Crossover" THEN [fast_period |-> 5, slow_period |-> 20]
        ELSE [period |-> 14, oversold |-> 30, overbought |-> 70]]

\* the parameters the settings menu passes to update_config
CustomParams(name) ==
    IF name = "SMA Crossover"
    THEN {[fast_period |-> 7, slow_period |-> 30], [fast_period |-> 3, slow_period |-> 20]}
    ELSE {[period |-> 10, oversold |-> 20, overbought |-> 80]}

\* the manager of the settings menu (strategy_menu.py line 379) and the one of
\* a run (main.py line 105)
Managers == {"menu", "run"}

\* the dictionary DEFAULT_CONFIGS[name]
DefaultRef(name) == <<"DEFAULT_CONFIGS", name>>

\* a dictionary made for manager m: by json.load or by dict.copy
OwnRef(m, name) == <<m, name>>

Refs ==
    {DefaultRef(name) : name \in StrategyNames}
    \cup {OwnRef(m, name) : m \in Managers, name \in StrategyNames}

NoManager == [created |-> FALSE, refs |-> [name \in StrategyNames |-> DefaultRef(name)]]

NoFile == [exists |-> FALSE, content |-> DocumentedDefaults]

NoCall == [op |-> "none", manager |-> "none", name |-> "none", amount |-> Zero,
           returned |-> FALSE]

\* the record of a call that returns nothing
ConfigCall(op, m, name) ==
    [op |-> op, manager |-> m, name |-> name, amount |-> Zero, returned |-> TRUE]

\* DEFAULT_CONFIGS.copy() (lines 208, 210, 248): a new outer dictionary whose
\* values are the dictionaries of DEFAULT_CONFIGS themselves
DefaultConfigsCopy ==
    [created |-> TRUE, refs |-> [name \in StrategyNames |-> DefaultRef(name)]]

\* StrategyConfigManager.get_config (lines 228-230)
get_config(m, name) == objects[configs[m].refs[name]]

\* StrategyConfigManager() (lines 191-210): the file is loaded into new
\* dictionaries; without a readable file the copy of DEFAULT_CONFIGS is used
NewManager(m) ==
    /\ pc = "menu"
    /\ \E read_ok \in BOOLEAN :
          IF config_file.exists /\ read_ok
          THEN /\ objects' = [ref \in Refs |->
                                IF \E name \in StrategyNames : ref = OwnRef(m, name)
                                THEN config_file.content[ref[2]]
                                ELSE objects[ref]]
               /\ configs' = [configs EXCEPT ![m] =
                                [created |-> TRUE,
                                 refs |-> [name \in StrategyNames |-> OwnRef(m, name)]]]
          ELSE /\ objects' = objects
               /\ configs' = [configs EXCEPT ![m] = DefaultConfigsCopy]
    /\ last_call' = ConfigCall("new", m, "none")
    /\ UNCHANGED <<inputs, sinks, total_deposit, total_withdrawal, config_file,
                   counters, portfolio, trades, portfolio_values, trade_count,
                   pending_signal, idx, pc, ledger, fail_log>>

\* update_config (lines 232-239): dict.update on the dictionary configs refers to
UpdateConfigCall(m, name) ==
    /\ pc = "menu"
    /\ configs[m].created
    /\ \E params \in CustomParams(name) :
          objects' = [objects EXCEPT ![configs[m].refs[name]] = params @@ @]
    /\ last_call' = ConfigCall("update_config", m, name)
    /\ UNCHANGED <<inputs, sinks, total_deposit, total_withdrawal, configs,
                   config_file, counters, portfolio, trades, portfolio_values,
                   trade_count, pending_signal, idx, pc, ledger, fail_log>>

\* save_configs (lines 212-226): the parameters of every strategy are written;
\* a failed write is printed and leaves the file
SaveConfigsCall(m) ==
    /\ pc = "menu"
    /\ configs[m].created
    /\ \E write_ok \in BOOLEAN :
          config_file' =
              IF write_ok
              THEN [exists |-> TRUE,
                    content |-> [name \in StrategyNames |-> get_config(m, name)]]
              ELSE config_file
    /\ last_call' = ConfigCall("save_configs", m, "none")
    /\ UNCHANGED <<inputs, sinks, total_deposit, total_withdrawal, objects, configs,
                   counters, portfolio, trades, portfolio_values, trade_count,
                   pending_signal, idx, pc, ledger, fail_log>>

\* reset_to_default (lines 241-244): configs[name] = DEFAULT_CONFIGS[name].copy()
ResetToDefaultCall(m, name) ==
    /\ pc = "menu"
    /\ configs[m].created
    /\ objects' = [objects EXCEPT ![OwnRef(m, name)] = objects[DefaultRef(name)]]
    /\ configs' = [configs EXCEPT ![m].refs[name] = OwnRef(m, name)]
    /\ last_call' = ConfigCall("reset_to_default", m, name)
    /\ UNCHANGED <<inputs, sinks, total_deposit, total_withdrawal, config_file,
                   counters, portfolio, trades, portfolio_values, trade_count,
                   pending_signal, idx, pc, ledger, fail_log>>

\* reset_all (lines 246-248): configs = DEFAULT_CONFIGS.copy()
ResetAllCall(m) ==
    /\ pc = "menu"
    /\ configs[m].created
    /\ configs' = [configs EXCEPT ![m] = DefaultConfigsCopy]
    /\ last_call' = ConfigCall("reset_all", m, "none")
    /\ UNCHANGED <<inputs, sinks, total_deposit, total_withdrawal, objects,
                   config_file, counters, portfolio, trades, portfolio_values,
                   trade_count, pending_signal, idx, pc, ledger, fail_log>>

\* the session at program start, before any menu call: the account as the run
\* finds it, DEFAULT_CONFIGS as written, no manager and no settings file
InitSession ==
    /\ total_deposit = balance
    /\ total_withdrawal = Zero
    /\ objects = [ref \in Refs |-> DocumentedDefaults[ref[2]]]
    /\ configs = [m \in Managers |-> NoManager]
    /\ config_file = NoFile
    /\ last_call = NoCall

(***************************************************************************)
(* main.py: run_backtest from the start of the loop.                       *)
(***************************************************************************)
\* prices = dataframe_to_price_list(df): the closes
prices == [k \in 1..Len(df) |-> df[k].Close]

\* faulty variant of price_history: the strategy is handed the whole series
PriceHistoryWholeSeries == prices

\* prices[:idx+1]
price_history == SubSeq(prices, 1, idx + 1)

\* the state when the loop is entered (main.py lines 175-195)
InitRun(frames, strategies, fees, ratios) ==
    /\ df \in frames
    /\ strategy \in strategies
    /\ initial_cash \in InitialCashValues
    /\ fee_rate \in fees
    /\ cooldown_sec \in Cooldowns
    /\ order_ratio \in ratios
    /\ portfolio = Portfolio(RInt(initial_cash))
    /\ trades = <<>>
    /\ portfolio_values = <<>>
    /\ trade_count = 0
    /\ buy_signals = 0
    /\ sell_signals = 0
    /\ blocked_by_cooldown = 0
    /\ blocked_by_no_asset = 0
    /\ blocked_by_no_cash = 0
    /\ pending_signal = NoPending
    /\ idx = 0
    /\ pc = "mark"
    /\ ledger = <<>>
    /\ fail_log = <<>>
    /\ history = <<>>
    /\ balance = RInt(initial_cash)
    /\ InitSession

Init == InitRun(DataFrames, Strategies, FeeRates, OrderRatios)

\* the data frames whose closes are 1 or 2
TwoLevelFrames ==
    {frame \in DataFrames :
        \A k \in 1..Len(frame) : frame[k].Close \in {RInt(1), RInt(2)}}

InitPluggable == InitRun(TwoLevelFrames, {PluggableStrategy}, {Zero}, {One})

\* faulty variant of ExecutionPrice: the slippage has the same sign for both sides
ExecutionPriceSameSign(action, open_price) ==
    RMul(open_price, RAdd(One, slippage_rate))

\* the execution price of a pending order: the bar's open with slippage
ExecutionPrice(action, open_price) ==
    IF action = "BUY" THEN RMul(open_price, RAdd(One, slippage_rate))
    ELSE RMul(open_price, RSub(One, slippage_rate))

\* faulty variant of OrderCash: the default ratio 0.3 is used whatever was entered
OrderCashDefaultRatio(pf, ratio) == RMul(pf.cash, R(3, 10))

\* order_cash = portfolio.cash * order_ratio
OrderCash(pf, ratio) == RMul(pf.cash, ratio)

\* the rule name of the forced liquidation trade
LiquidationName(name) == name \o " (liquidation)"

\* lines 199-201: mark to market and record the equity
MarkToMarket ==
    /\ pc = "mark"
    /\ portfolio' = [portfolio EXCEPT !.last_price = df[idx + 1].Close]
    /\ portfolio_values' = Append(portfolio_values, equity(portfolio'))
    /\ pc' = "resolve"
    /\ UNCHANGED <<session, inputs, sinks, counters, trades, trade_count, pending_signal, idx, ledger, fail_log>>

\* faulty variant of FillTs: the fill is stamped with the bar of the signal
FillTsSignalBar == pending_signal[2]

\* faulty variant of FillTs: the fill is stamped with the number of bars left
FillTsBarsLeft == Len(df) - 1 - idx

\* line 223: the fill is stamped with the bar it happens on
FillTs == idx

\* faulty variant of PendingAfterResolve: the clearing sits at the end of the try block
PendingKeptOnFailure(completed) ==
    IF completed THEN NoPending ELSE pending_signal

\* line 240: the pending order is cleared whether or not the try block completed
PendingAfterResolve(completed) == NoPending

\* faulty variant of ResolveNextPc: the error is not caught and ends the run
ResolveAborts(completed) == IF completed THEN "decide" ELSE "crashed"

\* lines 237-242: the except clause swallows the error and the bar goes on
ResolveNextPc(completed) == "decide"

\* line 238: the failure printed for exception e
FailureEvent(raised) == <<idx, IF raised THEN "ValueError" ELSE "OSError">>

\* lines 204-240: fill the pending order at this bar's open; ledger_ok = FALSE is
\* append_trade raising, which the except clause swallows like the ValueError
ResolvePending ==
    /\ pc = "resolve"
    /\ pending_signal # NoPending
    /\ LET action == pending_signal[1]
           execution_price == ExecutionPrice(action, df[idx + 1].Open)
           order_cash == OrderCash(portfolio, order_ratio)
           res == execute_market(portfolio, action, execution_price, FillTs,
                                 fee_rate, order_cash, strategy.name)
       IN  \E ledger_ok \in BOOLEAN :
              LET completed == ~res.raised /\ ledger_ok
              IN  /\ IF res.raised
                     THEN UNCHANGED <<portfolio, trades>>
                     ELSE /\ portfolio' = res.pf
                          /\ trades' = Append(trades, res.trade)
                  /\ IF completed
                     THEN /\ ledger' = append_trade(ledger, res.trade)
                          /\ trade_count' = trade_count + 1
                          /\ fail_log' = fail_log
                     ELSE /\ fail_log' = Append(fail_log, FailureEvent(res.raised))
                          /\ UNCHANGED <<ledger, trade_count>>
                  /\ pending_signal' = PendingAfterResolve(completed)
                  /\ pc' = ResolveNextPc(completed)
    /\ UNCHANGED <<session, inputs, sinks, counters, portfolio_values, idx>>

\* line 204: no pending order
NoPendingSignal ==
    /\ pc = "resolve"
    /\ pending_signal = NoPending
    /\ pc' = "decide"
    /\ UNCHANGED <<session, inputs, sinks, counters, portfolio, trades, portfolio_values,
                   trade_count, pending_signal, idx, ledger, fail_log>>

\* faulty variant of NextBar: the loop steps over every other bar
NextBarSkips ==
    /\ idx' = idx + 2
    /\ pc' = IF idx + 2 < Len(df) THEN "mark" ELSE "post"

\* the next iteration of the loop, or the code after it
NextBar ==
    /\ idx' = idx + 1
    /\ pc' = IF idx + 1 < Len(df) THEN "mark" ELSE "post"

\* faulty variant of CountSignal: a SELL signal is not counted
CountSignalBuyOnly(action) ==
    /\ buy_signals' = IF action = "BUY" THEN buy_signals + 1 ELSE buy_signals
    /\ sell_signals' = sell_signals

\* lines 250-253
CountSignal(action) ==
    /\ buy_signals' = IF action = "BUY" THEN buy_signals + 1 ELSE buy_signals
    /\ sell_signals' = IF action = "SELL" THEN sell_signals + 1 ELSE sell_signals

\* faulty variant of IsTerminalBar: the comparison is off by one
IsTerminalBarOffByOne == idx >= Len(df)

\* line 256
IsTerminalBar == idx >= Len(df) - 1

\* line 260
CooldownOver == can_execute(idx, portfolio.last_trade_ts, cooldown_sec)

\* faulty variant of NoAsset: a SELL signal is let through with nothing held
NoAssetNeverBlocks(action) == FALSE

\* line 265
NoAsset(action) == action = "SELL" /\ portfolio.asset_qty = Zero

\* line 270
NoCash(action) == action = "BUY" /\ RLt(portfolio.cash, RInt(MinBuyCash))

\* lines 244-247: the strategy keeps
Keep ==
    /\ pc = "decide"
    /\ "KEEP" \in decide(strategy, price_history)
    /\ NextBar
    /\ UNCHANGED <<session, inputs, sinks, counters, portfolio, trades, portfolio_values,
                   trade_count, pending_signal, ledger, fail_log>>

\* lines 250-257: a signal on the last bar is counted and dropped
TerminalBar ==
    /\ pc = "decide"
    /\ \E action \in decide(strategy, price_history) \ {"KEEP"} :
          /\ CountSignal(action)
          /\ IsTerminalBar
    /\ NextBar
    /\ UNCHANGED <<session, inputs, sinks, portfolio, trades, portfolio_values, trade_count,
                   blocked_by_cooldown, blocked_by_no_asset, blocked_by_no_cash,
                   pending_signal, ledger, fail_log>>

\* lines 260-262: a signal inside the cooldown is counted and dropped
CooldownBlocked ==
    /\ pc = "decide"
    /\ \E action \in decide(strategy, price_history) \ {"KEEP"} :
          /\ CountSignal(action)
          /\ ~IsTerminalBar
          /\ ~CooldownOver
    /\ blocked_by_cooldown' = blocked_by_cooldown + 1
    /\ NextBar
    /\ UNCHANGED <<session, inputs, sinks, portfolio, trades, portfolio_values, trade_count,
                   blocked_by_no_asset, blocked_by_no_cash, pending_signal, ledger, fail_log>>

\* lines 265-267: a SELL signal with nothing to sell
NoAssetBlocked ==
    /\ pc = "decide"
    /\ \E action \in decide(strategy, price_history) \ {"KEEP"} :
          /\ CountSignal(action)
          /\ ~IsTerminalBar
          /\ CooldownOver
          /\ NoAsset(action)
    /\ blocked_by_no_asset' = blocked_by_no_asset + 1
    /\ NextBar
    /\ UNCHANGED <<session, inputs, sinks, portfolio, trades, portfolio_values, trade_count,
                   blocked_by_cooldown, blocked_by_no_cash, pending_signal, ledger, fail_log>>

\* lines 270-272: a BUY signal with too little cash
NoCashBlocked ==
    /\ pc = "decide"
    /\ \E action \in decide(strategy, price_history) \ {"KEEP"} :
          /\ CountSignal(action)
          /\ ~IsTerminalBar
          /\ CooldownOver
          /\ ~NoAsset(action)
          /\ NoCash(action)
    /\ blocked_by_no_cash' = blocked_by_no_cash + 1
    /\ NextBar
    /\ UNCHANGED <<session, inputs, sinks, portfolio, trades, portfolio_values, trade_count,
                   blocked_by_cooldown, blocked_by_no_asset, pending_signal, ledger, fail_log>>

\* line 275: the signal is recorded for the next bar
SchedulePending ==
    /\ pc = "decide"
    /\ \E action \in decide(strategy, price_history) \ {"KEEP"} :
          /\ CountSignal(action)
          /\ ~IsTerminalBar
          /\ CooldownOver
          /\ ~NoAsset(action)
          /\ ~NoCash(action)
          /\ pending_signal' = <<action, idx>>
    /\ NextBar
    /\ UNCHANGED <<session, inputs, sinks, portfolio, trades, portfolio_values, trade_count,
                   blocked_by_cooldown, blocked_by_no_asset, blocked_by_no_cash,
                   ledger, fail_log>>

\* faulty variant of FinalPrice: the liquidation is priced at the last open
FinalPriceOpen == df[Len(df)].Open

\* line 279: the liquidation price is the last close
FinalPrice == prices[Len(prices)]

\* faulty variant of ForcedLiquidation: the held quantity is kept after the loop
LiquidationSkipped ==
    /\ pc = "post"
    /\ RLt(Zero, portfolio.asset_qty)
    /\ pc' = "report"
    /\ UNCHANGED <<session, inputs, sinks, counters, portfolio, trades, portfolio_values,
                   trade_count, pending_signal, idx, ledger, fail_log>>

\* lines 278-302: forced liquidation of the held quantity at the last close;
\* ledger_ok = FALSE is append_trade raising, which ends run_backtest at line 299
ForcedLiquidation ==
    /\ pc = "post"
    /\ RLt(Zero, portfolio.asset_qty)
    /\ LET final_price == FinalPrice
           sell_value == RMul(portfolio.asset_qty, final_price)
           sell_fee == RMul(sell_value, fee_rate)
           final_trade == Trade(Len(prices) - 1, "SELL", final_price,
                                portfolio.asset_qty, sell_fee,
                                LiquidationName(strategy.name))
           cash_after == RSub(RAdd(portfolio.cash, sell_value), sell_fee)
       IN  /\ trades' = Append(trades, final_trade)
           /\ \E ledger_ok \in BOOLEAN :
                 IF ledger_ok
                 THEN /\ ledger' = append_trade(ledger, final_trade)
                      /\ portfolio' = [portfolio EXCEPT !.cash = cash_after,
                                                        !.asset_qty = Zero]
                      /\ pc' = "report"
                 ELSE /\ ledger' = ledger
                      /\ portfolio' = [portfolio EXCEPT !.cash = cash_after]
                      /\ pc' = "crashed"
    /\ UNCHANGED <<session, inputs, sinks, counters, portfolio_values, trade_count,
                   pending_signal, idx, fail_log>>

\* line 278: nothing is held when the loop ends
NoLiquidation ==
    /\ pc = "post"
    /\ ~RLt(Zero, portfolio.asset_qty)
    /\ pc' = "report"
    /\ UNCHANGED <<session, inputs, sinks, counters, portfolio, trades, portfolio_values,
                   trade_count, pending_signal, idx, ledger, fail_log>>

\* lines 305-309: the buy-and-hold benchmark
benchmark_final ==
    LET first_price == df[1].Open
        last_price == df[Len(df)].Close
        benchmark_qty == RDiv(RInt(initial_cash), first_price)
    IN  RMul(benchmark_qty, last_price)

\* lines 309 and 314: a profit rate in percent
ProfitRate(final, initial) ==
    RMul(RDiv(RSub(final, initial), initial), RInt(100))

\* lines 395-408: the trades as dictionaries (the calendar date is left out)
trades_data ==
    [k \in 1..Len(trades) |->
        [ts |-> trades[k].ts, side |-> trades[k].side, price |-> trades[k].price,
         qty |-> trades[k].qty, fee |-> trades[k].fee, rule |-> trades[k].rule_name]]

\* lines 410-431: the result of the run (ticker, stock name, period and the
\* outperformance, the difference of the two profit rates, are left out)
result_data ==
    LET final_equity == equity(portfolio)
        profit_rate == ProfitRate(final_equity, RInt(initial_cash))
        benchmark_profit_rate == ProfitRate(benchmark_final, RInt(initial_cash))
    IN  [strategy |-> strategy.name,
         initial_cash |-> RInt(initial_cash),
         final_equity |-> final_equity,
         profit_loss |-> RSub(final_equity, RInt(initial_cash)),
         profit_rate |-> profit_rate,
         trades_count |-> Len(trades),
         total_fees |-> Total([k \in 1..Len(trades) |-> trades[k].fee]),
         trades |-> trades_data,
         benchmark |-> [profit_rate |-> benchmark_profit_rate,
                        final_value |-> benchmark_final],
         settings |-> [fee_rate |-> fee_rate, cooldown |-> cooldown_sec,
                       order_ratio |-> order_ratio]]

(***************************************************************************)
(* history.py: the results file.  json.dump writes an int as its digits,   *)
(* a float as its shortest repr (which json.load reads back as the same    *)
(* float) and a string between quotes; the file is modelled as the         *)
(* sequence of the written objects, each value as the token written.       *)
(***************************************************************************)
JsonInt(i) == <<"int", i>>

\* faulty variant of JsonFloat: the fraction is cut off when writing
JsonFloatTruncated(x) == <<"float", x.n \div x.d, 1>>

JsonFloat(x) == <<"float", x.n, x.d>>

JsonString(s) == <<"string", s>>

ParseInt(token) == token[2]

ParseFloat(token) == R(token[2], token[3])

ParseString(token) == token[2]

\* json.dump of one entry of trades_data
dump_trade(t) ==
    [ts |-> JsonInt(t.ts), side |-> JsonString(t.side),
     price |-> JsonFloat(t.price), qty |-> JsonFloat(t.qty),
     fee |-> JsonFloat(t.fee), rule |-> JsonString(t.rule)]

\* json.load of one entry of the trades list
load_trade(o) ==
    [ts |-> ParseInt(o.ts), side |-> ParseString(o.side),
     price |-> ParseFloat(o.price), qty |-> ParseFloat(o.qty),
     fee |-> ParseFloat(o.fee), rule |-> ParseString(o.rule)]

\* json.dump of one stored result
dump_result(r) ==
    [id |-> JsonInt(r.id),
     strategy |-> JsonString(r.strategy),
     initial_cash |-> JsonFloat(r.initial_cash),
     final_equity |-> JsonFloat(r.final_equity),
     profit_loss |-> JsonFloat(r.profit_loss),
     profit_rate |-> JsonFloat(r.profit_rate),
     trades_count |-> JsonInt(r.trades_count),
     total_fees |-> JsonFloat(r.total_fees),
     trades |-> [k \in 1..Len(r.trades) |-> dump_trade(r.trades[k])],
     benchmark |-> [profit_rate |-> JsonFloat(r.benchmark.profit_rate),
                    final_value |-> JsonFloat(r.benchmark.final_value)],
     settings |-> [fee_rate |-> JsonFloat(r.settings.fee_rate),
                   cooldown |-> JsonInt(r.settings.cooldown),
                   order_ratio |-> JsonFloat(r.settings.order_ratio)]]

\* json.load of one stored result
load_result(o) ==
    [id |-> ParseInt(o.id),
     strategy |-> ParseString(o.strategy),
     initial_cash |-> ParseFloat(o.initial_cash),
     final_equity |-> ParseFloat(o.final_equity),
     profit_loss |-> ParseFloat(o.profit_loss),
     profit_rate |-> ParseFloat(o.profit_rate),
     trades_count |-> ParseInt(o.trades_count),
     total_fees |-> ParseFloat(o.total_fees),
     trades |-> [k \in 1..Len(o.trades) |-> load_trade(o.trades[k])],
     benchmark |-> [profit_rate |-> ParseFloat(o.benchmark.profit_rate),
                    final_value |-> ParseFloat(o.benchmark.final_value)],
     settings |-> [fee_rate |-> ParseFloat(o.settings.fee_rate),
                   cooldown |-> ParseInt(o.settings.cooldown),
                   order_ratio |-> ParseFloat(o.settings.order_ratio)]]

\* BacktestHistory.load_history (lines 30-36) of a readable file
load_history(file) == [k \in 1..Len(file) |-> load_result(file[k])]

\* BacktestHistory.save_history (lines 38-41)
save_history(results) == [k \in 1..Len(results) |-> dump_result(results[k])]

\* faulty variant of add_result: the identifiers are counted from 0
AddResultFromZero(file, result) ==
    LET stored == load_history(file)
    IN  save_history(Append(stored, ("id" :> Len(stored)) @@ result))

\* BacktestHistory.add_result (lines 43-70): the file is read, the result gets
\* the next id, is appended, and the file is written (the wall-clock timestamp
\* is left out)
add_result(file, result) ==
    LET stored == load_history(file)
    IN  save_history(Append(stored, ("id" :> Len(stored) + 1) @@ result))

\* sorted(..., reverse=True) takes the results in stored order and puts each
\* behind the results ranked so far whose profit_rate is not smaller
RECURSIVE InsertRanked(_, _)
InsertRanked(ranked, result) ==
    IF ranked = <<>> THEN <<result>>
    ELSE IF RLt(Head(ranked).profit_rate, result.profit_rate)
         THEN <<result>> \o ranked
         ELSE <<Head(ranked)>> \o InsertRanked(Tail(ranked), result)

RECURSIVE SortedByProfitRate(_)
SortedByProfitRate(stored) ==
    IF stored = <<>> THEN <<>>
    ELSE InsertRanked(SortedByProfitRate(SubSeq(stored, 1, Len(stored) - 1)),
                      stored[Len(stored)])

\* faulty variant of get_rankings: the results are not sorted
GetRankingsUnsorted(file, limit) ==
    LET stored == load_history(file)
    IN  SubSeq(stored, 1, IF limit < Len(stored) THEN limit ELSE Len(stored))

\* BacktestHistory.get_rankings (lines 72-91) for limit >= 0: the first limit
\* results of the history sorted by profit_rate, largest first
get_rankings(file, limit) ==
    LET sorted_history == SortedByProfitRate(load_history(file))
    IN  SubSeq(sorted_history, 1,
               IF limit < Len(sorted_history) THEN limit ELSE Len(sorted_history))

\* BacktestHistory.get_by_id (lines 93-109): the first result with that id
get_by_id(file, result_id) ==
    LET stored == load_history(file)
        found == {k \in 1..Len(stored) : stored[k].id = result_id}
    IN  IF found = {} THEN None
        ELSE stored[CHOOSE k \in found : \A other \in found : k <= other]

\* BacktestHistory.clear_history (lines 111-113)
clear_history == save_history(<<>>)

\* lines 319-361: a run without trades prints the signal diagnostics only
NoTradesReport ==
    /\ pc = "report"
    /\ trades = <<>>
    /\ pc' = "balance"
    /\ UNCHANGED <<session, inputs, sinks, counters, portfolio, trades, portfolio_values,
                   trade_count, pending_signal, idx, ledger, fail_log>>

\* lines 362-434: a run with trades prints the statistics and stores its result
SaveResult ==
    /\ pc = "report"
    /\ trades # <<>>
    /\ history' = add_result(history, result_data)
    /\ pc' = "balance"
    /\ UNCHANGED <<session, inputs, balance, counters, portfolio, trades, portfolio_values,
                   trade_count, pending_signal, idx, ledger, fail_log>>

\* faulty variant of UpdateBalance: the cash is added to the stored balance
UpdateBalanceAdds ==
    /\ pc = "balance"
    /\ balance' = RAdd(balance, portfolio.cash)
    /\ pc' = "done"
    /\ UNCHANGED <<session, inputs, history, counters, portfolio, trades, portfolio_values,
                   trade_count, pending_signal, idx, ledger, fail_log>>

\* line 437: account_manager.update_balance(portfolio.cash)
UpdateBalance ==
    /\ pc = "balance"
    /\ balance' = portfolio.cash
    /\ pc' = "done"
    /\ UNCHANGED <<session, inputs, history, counters, portfolio, trades, portfolio_values,
                   trade_count, pending_signal, idx, ledger, fail_log>>

Next ==
    \/ MarkToMarket
    \/ ResolvePending
    \/ NoPendingSignal
    \/ Keep
    \/ TerminalBar
    \/ CooldownBlocked
    \/ NoAssetBlocked
    \/ NoCashBlocked
    \/ SchedulePending
    \/ ForcedLiquidation
    \/ NoLiquidation
    \/ NoTradesReport
    \/ SaveResult
    \/ UpdateBalance

Spec == Init /\ [][Next]_vars

\* the positions of run_backtest
Positions == {"mark", "resolve", "decide", "post", "report", "balance", "done",
              "crashed"}

\* the interpreter executes the statement at the current position: the run
\* moves to another position unless it has returned or raised
Step ==
    /\ pc \notin {"done", "crashed"}
    /\ pc' \in Positions \ {pc}

\* the run as the interpreter executes it: the single thread always takes its
\* next step (nothing in run_backtest after the inputs waits or blocks); every
\* step of Next changes the position, so the steps of Step are those of Next
SpecTerminating == Init /\ [][Next]_vars /\ WF_pc(Step)

\* the driver run with each of the six shipped variants (fee 0, order ratio 1)
InitShipped == InitRun(DataFrames, ShippedStrategies, {Zero}, {One})

SpecShipped == InitShipped /\ [][Next]_vars

\* strictly increasing closes: constant steps, and steps that grow
RisingCloses ==
    { [k \in 1..RisingBars |-> start + step * (k - 1)] :
          start \in {1, 3}, step \in {1, 2} }
    \cup { [k \in 1..RisingBars |-> start + (k * (k - 1)) \div 2] : start \in {1, 3} }

RisingFrames ==
    { [k \in 1..RisingBars |-> Bar(closes, k)] : closes \in RisingCloses }

\* the end-to-end run: SMACrossover(5, 20) on a rising series, cooldown 0
InitRising ==
    /\ InitRun(RisingFrames, {SMACrossover(5, 20)}, {Zero}, {One})
    /\ cooldown_sec = 0

\* the steps such a run can take: no SELL signal, no cooldown, a position at the end
NextRising ==
    \/ MarkToMarket
    \/ ResolvePending
    \/ NoPendingSignal
    \/ Keep
    \/ TerminalBar
    \/ NoCashBlocked
    \/ SchedulePending
    \/ ForcedLiquidation
    \/ SaveResult
    \/ UpdateBalance

SpecRising == InitRising /\ [][NextRising]_vars

\* the driver run with a strategy object outside the shipped ones
SpecPluggable == InitPluggable /\ [][Next]_vars

(***************************************************************************)
(* The results file between runs: the ranking menu (history.py lines       *)
(* 236-291) and the end of run_backtest are the only callers that write.   *)
(***************************************************************************)
\* a result as run_backtest hands it over: one BUY, liquidated at the end
SinkResult(final_equity) ==
    LET initial == RInt(1002001)
        qty == RInt(1001000)
    IN  [strategy |-> "SMA",
         initial_cash |-> initial,
         final_equity |-> final_equity,
         profit_loss |-> RSub(final_equity, initial),
         profit_rate |-> ProfitRate(final_equity, initial),
         trades_count |-> 2,
         total_fees |-> Zero,
         trades |-> <<[ts |-> 1, side |-> "BUY", price |-> R(1001, 1000),
                       qty |-> qty, fee |-> Zero, rule |-> "SMA"],
                      [ts |-> 3, side |-> "SELL", price |-> RDiv(final_equity, qty),
                       qty |-> qty, fee |-> Zero,
                       rule |-> LiquidationName("SMA")]>>,
         benchmark |-> [profit_rate |-> RInt(100), final_value |-> RInt(2004002)],
         settings |-> [fee_rate |-> Zero, cooldown |-> 1, order_ratio |-> One]]

SinkResults == {SinkResult(RInt(final)) : final \in {1001000, 2002000, 4004000}}

\* no run is in progress: only the results file changes
InitSink ==
    /\ df = <<>>
    /\ strategy = SMACrossover(1, 2)
    /\ initial_cash = 1002001
    /\ fee_rate = Zero
    /\ cooldown_sec = 1
    /\ order_ratio = One
    /\ portfolio = Portfolio(RInt(initial_cash))
    /\ trades = <<>>
    /\ portfolio_values = <<>>
    /\ trade_count = 0
    /\ buy_signals = 0
    /\ sell_signals = 0
    /\ blocked_by_cooldown = 0
    /\ blocked_by_no_asset = 0
    /\ blocked_by_no_cash = 0
    /\ pending_signal = NoPending
    /\ idx = 0
    /\ pc = "menu"
    /\ ledger = <<>>
    /\ fail_log = <<>>
    /\ history = save_history(<<>>)
    /\ balance = RInt(initial_cash)
    /\ InitSession

\* a call of BacktestHistory.add_result
AddResultCall ==
    /\ pc = "menu"
    /\ Len(history) < MaxResults
    /\ \E result \in SinkResults : history' = add_result(history, result)
    /\ last_call' = ConfigCall("add_result", "none", "none")
    /\ UNCHANGED <<inputs, balance, total_deposit, total_withdrawal, objects, configs,
                   config_file, counters, portfolio, trades, portfolio_values,
                   trade_count, pending_signal, idx, pc, ledger, fail_log>>

\* a call of BacktestHistory.clear_history
ClearHistoryCall ==
    /\ pc = "menu"
    /\ history' = clear_history
    /\ last_call' = ConfigCall("clear_history", "none", "none")
    /\ UNCHANGED <<inputs, balance, total_deposit, total_withdrawal, objects, configs,
                   config_file, counters, portfolio, trades, portfolio_values,
                   trade_count, pending_signal, idx, pc, ledger, fail_log>>

\* the limits get_rankings is called with
RankingLimits == 0..(MaxResults + 1)

\* a call of BacktestHistory.get_rankings: the list it returns is kept
GetRankingsCall ==
    /\ pc = "menu"
    /\ \E limit \in RankingLimits :
          last_call' = [op |-> "get_rankings", manager |-> "none", name |-> "none",
                        amount |-> RInt(limit),
                        returned |-> get_rankings(history, limit)]
    /\ UNCHANGED <<inputs, sinks, total_deposit, total_withdrawal, objects, configs,
                   config_file, counters, portfolio, trades, portfolio_values,
                   trade_count, pending_signal, idx, pc, ledger, fail_log>>

\* add_result when the read of the file may raise: load_history (lines 30-36)
\* turns every exception into the empty list, and add_result goes on with it
AddResultRead(file, result, read_ok) ==
    IF read_ok THEN add_result(file, result)
    ELSE add_result(save_history(<<>>), result)

\* a call of BacktestHistory.add_result on a file that may fail to be read
AddResultAnyRead ==
    /\ pc = "menu"
    /\ Len(history) < MaxResults
    /\ \E result \in SinkResults, read_ok \in BOOLEAN :
          history' = AddResultRead(history, result, read_ok)
    /\ last_call' = ConfigCall("add_result", "none", "none")
    /\ UNCHANGED <<inputs, balance, total_deposit, total_withdrawal, objects, configs,
                   config_file, counters, portfolio, trades, portfolio_values,
                   trade_count, pending_signal, idx, pc, ledger, fail_log>>

NextSink ==
    \/ AddResultCall
    \/ ClearHistoryCall
    \/ GetRankingsCall

SpecSink == InitSink /\ [][NextSink]_vars

NextSinkAnyRead ==
    \/ AddResultAnyRead
    \/ ClearHistoryCall
    \/ GetRankingsCall

\* the results file when its reads may fail
SpecSinkAnyRead == InitSink /\ [][NextSinkAnyRead]_vars

\* the settings of the strategies between runs: the calls the settings menu
\* and a run make on their managers
NextConfig ==
    \/ \E m \in Managers : NewManager(m)
    \/ \E m \in Managers, name \in StrategyNames : UpdateConfigCall(m, name)
    \/ \E m \in Managers : SaveConfigsCall(m)
    \/ \E m \in Managers, name \in StrategyNames : ResetToDefaultCall(m, name)
    \/ \E m \in Managers : ResetAllCall(m)

SpecConfig == InitSink /\ [][NextConfig]_vars

(***************************************************************************)
(* account.py                                                              *)
(***************************************************************************)
\* the deposits of a session add up to at most this many times DepositUnit
MaxDepositUnits == 5

DepositUnit == 500000

\* the amounts typed into the account menu: a negative one, nothing, a
\* fractional one and a whole one
Amounts == {RInt(0 - DepositUnit), Zero, R(DepositUnit + 1, 2), RInt(DepositUnit)}

\* load_account (lines 40-43)
load_account ==
    [cash |-> balance, total_deposit |-> total_deposit,
     total_withdrawal |-> total_withdrawal]

\* deposit (lines 55-73): the account that is saved and the value returned
deposit(account, amount) ==
    IF ~RLt(Zero, amount)
    THEN [account |-> account, returned |-> FALSE]
    ELSE [account |-> [account EXCEPT
                          !.cash = RAdd(@, amount),
                          !.total_deposit = RAdd(@, amount)],
          returned |-> TRUE]

\* faulty variant of withdraw: the balance is not compared with the amount
WithdrawOverdraws(account, amount) ==
    IF ~RLt(Zero, amount)
    THEN [account |-> account, returned |-> FALSE]
    ELSE [account |-> [account EXCEPT
                          !.cash = RSub(@, amount),
                          !.total_withdrawal = RAdd(@, amount)],
          returned |-> TRUE]

\* withdraw (lines 75-97): the account that is saved and the value returned
withdraw(account, amount) ==
    IF ~RLt(Zero, amount)
    THEN [account |-> account, returned |-> FALSE]
    ELSE IF RLt(account.cash, amount)
    THEN [account |-> account, returned |-> FALSE]
    ELSE [account |-> [account EXCEPT
                          !.cash = RSub(@, amount),
                          !.total_withdrawal = RAdd(@, amount)],
          returned |-> TRUE]

\* the record of a call on the account
AccountCall(op, amount, returned) ==
    [op |-> op, manager |-> "none", name |-> "none", amount |-> amount,
     returned |-> returned]

\* a call of AccountManager.deposit
DepositCall ==
    /\ pc = "menu"
    /\ \E amount \in Amounts :
          LET res == deposit(load_account, amount)
          IN  /\ ~RLt(RInt(MaxDepositUnits * DepositUnit),
                      res.account.total_deposit)
              /\ balance' = res.account.cash
              /\ total_deposit' = res.account.total_deposit
              /\ total_withdrawal' = res.account.total_withdrawal
              /\ last_call' = AccountCall("deposit", amount, res.returned)
    /\ UNCHANGED <<inputs, history, objects, configs, config_file, counters,
                   portfolio, trades, portfolio_values, trade_count,
                   pending_signal, idx, pc, ledger, fail_log>>

\* a call of AccountManager.withdraw
WithdrawCall ==
    /\ pc = "menu"
    /\ \E amount \in Amounts :
          LET res == withdraw(load_account, amount)
          IN  /\ balance' = res.account.cash
              /\ total_deposit' = res.account.total_deposit
              /\ total_withdrawal' = res.account.total_withdrawal
              /\ last_call' = AccountCall("withdraw", amount, res.returned)
    /\ UNCHANGED <<inputs, history, objects, configs, config_file, counters,
                   portfolio, trades, portfolio_values, trade_count,
                   pending_signal, idx, pc, ledger, fail_log>>

NextAccount ==
    \/ DepositCall
    \/ WithdrawCall

\* the account between runs
SpecAccount == InitSink /\ [][NextAccount]_vars

(***************************************************************************)
(* main.py: run_backtest from its first line to the start of the loop      *)
(***************************************************************************)
\* the ledger file a previous run left behind
PreviousLedger ==
    <<LedgerHeader,
      LedgerRow(Trade(1, "BUY", R(1001, 1000), RInt(1000), Zero, "SMA")),
      LedgerRow(Trade(3, "SELL", RInt(2), RInt(1000), Zero, LiquidationName("SMA")))>>

\* the results file a previous run left behind
PreviousHistory == add_result(save_history(<<>>), SinkResult(RInt(2002000)))

\* AccountManager.get_balance (account.py lines 50-53)
get_balance == balance

\* clear_previous_trades (lines 37-40): the ledger file is deleted when it exists
clear_previous_trades(rows) == <<>>

\* run_backtest is entered from the menu with the files of earlier runs on disk
InitStart ==
    /\ df \in TwoLevelFrames
    /\ strategy \in ShippedStrategies
    /\ initial_cash = 0
    /\ fee_rate = Zero
    /\ cooldown_sec \in Cooldowns
    /\ order_ratio = One
    /\ portfolio = Portfolio(Zero)
    /\ trades = <<>>
    /\ portfolio_values = <<>>
    /\ trade_count = 0
    /\ buy_signals = 0
    /\ sell_signals = 0
    /\ blocked_by_cooldown = 0
    /\ blocked_by_no_asset = 0
    /\ blocked_by_no_cash = 0
    /\ pending_signal = NoPending
    /\ idx = 0
    /\ pc = "start"
    /\ ledger \in {<<>>, PreviousLedger}
    /\ fail_log = <<>>
    /\ history \in {save_history(<<>>), PreviousHistory}
    /\ balance \in {RInt(MinRunBalance - 1)} \cup {RInt(cash) : cash \in InitialCashValues}
    /\ total_deposit = balance
    /\ total_withdrawal = Zero
    /\ objects = [ref \in Refs |-> DocumentedDefaults[ref[2]]]
    /\ configs = [m \in Managers |-> NoManager]
    /\ config_file = NoFile
    /\ last_call = NoCall

\* lines 73-78: a balance under 10000 ends run_backtest at once
RefuseRun ==
    /\ pc = "start"
    /\ RLt(get_balance, RInt(MinRunBalance))
    /\ pc' = "refused"
    /\ UNCHANGED <<session, inputs, sinks, counters, portfolio, trades, portfolio_values,
                   trade_count, pending_signal, idx, ledger, fail_log>>

\* lines 83-95: no stock is selected or no data is downloaded
AbandonRun ==
    /\ pc = "start"
    /\ ~RLt(get_balance, RInt(MinRunBalance))
    /\ pc' = "abandoned"
    /\ UNCHANGED <<session, inputs, sinks, counters, portfolio, trades, portfolio_values,
                   trade_count, pending_signal, idx, ledger, fail_log>>

\* lines 73-195: the run starts from the balance of the account, the previous
\* ledger is deleted and the portfolio is created; unlink_ok = FALSE is the
\* deletion raising, which ends run_backtest at line 175
StartRun ==
    /\ pc = "start"
    /\ ~RLt(get_balance, RInt(MinRunBalance))
    /\ \E cash \in InitialCashValues, unlink_ok \in BOOLEAN :
          /\ RInt(cash) = get_balance
          /\ initial_cash' = cash
          /\ IF ledger = <<>> \/ unlink_ok
             THEN /\ ledger' = clear_previous_trades(ledger)
                  /\ portfolio' = Portfolio(RInt(cash))
                  /\ pc' = "mark"
             ELSE /\ pc' = "crashed"
                  /\ UNCHANGED <<ledger, portfolio>>
    /\ UNCHANGED <<session, df, strategy, fee_rate, cooldown_sec, order_ratio, sinks,
                   counters, trades, portfolio_values, trade_count, pending_signal,
                   idx, fail_log>>

NextStart ==
    \/ RefuseRun
    \/ AbandonRun
    \/ StartRun
    \/ Next

SpecStart == InitStart /\ [][NextStart]_vars

(***************************************************************************)
(* Properties.                                                             *)
(***************************************************************************)
\* the signals the strategy gives on the bar being evaluated
Signals == decide(strategy, price_history) \cap {"BUY", "SELL"}

\* the signal passes the terminal-bar, cooldown and position gates of the bar
PassesGates(action) ==
    /\ idx < Len(df) - 1
    /\ can_execute(idx, portfolio.last_trade_ts, cooldown_sec)
    /\ ~(action = "SELL" /\ portfolio.asset_qty = Zero)
    /\ ~(action = "BUY" /\ RLt(portfolio.cash, RInt(MinBuyCash)))

\* the loop is over
LoopOver == pc \in {"post", "report", "balance", "done", "crashed"}

\* the last trade of a log
LastTrade(log) == log[Len(log)]

\* a rational is negative
IsNegative(a) == a.n < 0

\* C1: a trade is appended inside the loop at bar j exactly when bar j-1 gave
\* a BUY or SELL signal that passed the terminal-bar, cooldown and position
\* gates: the fill carries that signal's side and ts = signal bar + 1.
C1_NextBarExecution ==
    /\ [](pending_signal # NoPending =>
            /\ pc \in {"mark", "resolve"}
            /\ pending_signal[1] \in {"BUY", "SELL"}
            /\ idx = pending_signal[2] + 1)
    /\ [][/\ (~LoopOver /\ trades' # trades) =>
                /\ pc = "resolve"
                /\ pending_signal # NoPending
                /\ Len(trades') = Len(trades) + 1
                /\ SubSeq(trades', 1, Len(trades)) = trades
                /\ LastTrade(trades').ts = pending_signal[2] + 1
                /\ LastTrade(trades').side = pending_signal[1]
          /\ (pc = "resolve" /\ pending_signal # NoPending) =>
                Len(trades') = Len(trades) + 1
          /\ (pc = "decide") =>
                \A action \in {"BUY", "SELL"} :
                   (action \in Signals /\ PassesGates(action))
                      <=> pending_signal' = <<action, idx>>
          /\ (pc = "decide" /\ pending_signal' # NoPending) =>
                pending_signal'[1] \in Signals
          /\ (pc # "decide") => pending_signal' \in {pending_signal, NoPending}
         ]_vars

\* C1 witness: a pending BUY or SELL of the previous bar has just been filled
C1_Witness ==
    /\ pc = "decide"
    /\ trades # <<>>
    /\ LastTrade(trades).ts = idx
    /\ idx >= 2

\* C2: a new pending signal is only ever recorded into an empty slot, and a
\* recorded signal leaves the slot only through the execution attempt of the
\* next bar, so each gets exactly one attempt before another is recorded.
C2_OnePendingOrder ==
    /\ [](pending_signal # NoPending => pc \in {"mark", "resolve"})
    /\ [][/\ (pending_signal' # NoPending /\ pending_signal' # pending_signal) =>
                /\ pending_signal = NoPending
                /\ pc = "decide"
                /\ pending_signal'[2] = idx
          /\ (pending_signal # NoPending /\ pending_signal' # pending_signal) =>
                /\ pc = "resolve"
                /\ idx = pending_signal[2] + 1
                /\ pending_signal' = NoPending
          /\ (pending_signal # NoPending /\ pc = "resolve") =>
                pending_signal' = NoPending
         ]_vars

\* C2 witness: a second pending signal is recorded after the first was executed
C2_Witness ==
    /\ pending_signal # NoPending
    /\ trades # <<>>

\* C3: on a non-terminal bar a BUY/SELL signal is dropped by the cooldown gate
\* exactly when fewer than cooldown_sec bars have passed since the last fill.
C3_CooldownWholeBars ==
    [][(pc = "decide" /\ Signals # {} /\ idx < Len(df) - 1) =>
          ((blocked_by_cooldown' = blocked_by_cooldown + 1)
              <=> (idx - portfolio.last_trade_ts < cooldown_sec))
      ]_vars

\* C4: the cash of the portfolio is never negative.
C4_CashNonNegative == ~IsNegative(portfolio.cash)

\* C5: the equity of the portfolio, and every value of the equity curve, is
\* never negative.
C5_EquityNonNegative ==
    /\ ~IsNegative(equity(portfolio))
    /\ \A k \in 1..Len(portfolio_values) : ~IsNegative(portfolio_values[k])

\* C6: a BUY fill uses cashToUse = min(orderCash, cash), buys cashToUse/price,
\* charges price*qty*feeRate, strictly raises asset_qty by the quantity and
\* strictly lowers cash by exactly cashToUse + fee.
C6_BuyFill ==
    [][(pc = "resolve" /\ pending_signal # NoPending /\ pending_signal[1] = "BUY") =>
          LET t == LastTrade(trades')
              cashToUse == RMin(RMul(portfolio.cash, order_ratio), portfolio.cash)
          IN  /\ Len(trades') = Len(trades) + 1
              /\ t.side = "BUY"
              /\ ~IsNegative(t.price) /\ t.price # Zero
              /\ t.qty = RDiv(cashToUse, t.price)
              /\ t.fee = RMul(RMul(t.price, t.qty), fee_rate)
              /\ portfolio'.asset_qty = RAdd(portfolio.asset_qty, t.qty)
              /\ RLt(portfolio.asset_qty, portfolio'.asset_qty)
              /\ portfolio'.cash = RSub(portfolio.cash, RAdd(cashToUse, t.fee))
              /\ RLt(portfolio'.cash, portfolio.cash)
      ]_vars

\* C6 witness: a BUY has just been filled
C6_Witness ==
    /\ pc = "decide"
    /\ trades # <<>>
    /\ LastTrade(trades).side = "BUY"
    /\ LastTrade(trades).ts = idx

\* C7: a SELL fill sells the whole position whatever the order cash is: the
\* trade quantity is the quantity held before, asset_qty becomes 0, the fee is
\* price*qty*feeRate and cash grows by price*qty - fee.
C7_SellFill ==
    [][(pc = "resolve" /\ pending_signal # NoPending /\ pending_signal[1] = "SELL") =>
          LET t == LastTrade(trades')
          IN  /\ Len(trades') = Len(trades) + 1
              /\ t.side = "SELL"
              /\ t.qty = portfolio.asset_qty
              /\ portfolio'.asset_qty = Zero
              /\ t.fee = RMul(RMul(t.price, t.qty), fee_rate)
              /\ portfolio'.cash =
                    RAdd(portfolio.cash, RSub(RMul(t.price, t.qty), t.fee))
      ]_vars

\* C7 witness: a SELL of a position has just been filled inside the loop
C7_Witness ==
    /\ pc = "decide"
    /\ trades # <<>>
    /\ LastTrade(trades).side = "SELL"
    /\ LastTrade(trades).ts = idx
    /\ RLt(Zero, LastTrade(trades).qty)

\* C8: when the loop ends with asset_qty > 0 exactly one trade is appended, a
\* SELL of the whole quantity at the last bar's index and close with fee
\* qty*close*feeRate, and it stays the last trade; with asset_qty = 0 nothing
\* is appended.
C8_ForcedLiquidation ==
    /\ [][(pc = "post") =>
             IF RLt(Zero, portfolio.asset_qty)
             THEN LET close == df[Len(df)].Close
                      t == LastTrade(trades')
                  IN  /\ Len(trades') = Len(trades) + 1
                      /\ SubSeq(trades', 1, Len(trades)) = trades
                      /\ t.side = "SELL"
                      /\ t.ts = Len(df) - 1
                      /\ t.price = close
                      /\ t.qty = portfolio.asset_qty
                      /\ t.fee = RMul(RMul(t.qty, close), fee_rate)
             ELSE trades' = trades
         ]_vars
    /\ [][(pc \in {"report", "balance", "done", "crashed"}) => trades' = trades]_vars

\* C8 witness: the run ended with a forced liquidation after a fill in the loop
C8_Witness ==
    /\ pc = "done"
    /\ Len(trades) >= 2
    /\ LastTrade(trades).rule_name = LiquidationName(strategy.name)
    /\ LastTrade(trades).price # df[Len(df)].Open

\* C9: when execute_market raises for a pending order, the slot is cleared on
\* that bar, no trade is appended, the portfolio is untouched, the strategy
\* is still evaluated on that bar, the order never comes back and every bar
\* of the series is processed.
C9_FillErrorContinues ==
    /\ [](LoopOver => idx = Len(df) /\ Len(portfolio_values) = Len(df))
    /\ [][/\ (pc = "resolve" /\ pending_signal # NoPending
                /\ pending_signal[1] \notin {"BUY", "SELL"}) =>
                /\ pending_signal' = NoPending
                /\ trades' = trades
                /\ portfolio' = portfolio
                /\ idx' = idx
                /\ pc' = "decide"
          /\ (pending_signal' # NoPending /\ pending_signal' # pending_signal) =>
                (pc = "decide" /\ pending_signal'[2] = idx)
          /\ (pc = "decide") => (idx' = idx + 1 /\ pc' \in {"mark", "post"})
         ]_vars

\* C9 witness: a fill failed with the ValueError and the run still finished
C9_Witness ==
    /\ pc = "done"
    /\ \E k \in 1..Len(fail_log) :
          /\ fail_log[k][2] = "ValueError"
          /\ fail_log[k][1] < Len(df) - 1

\* C10: no pending order is recorded on the last bar, and none is left when
\* the loop is over.
C10_TerminalBarGuard ==
    /\ pending_signal # NoPending => pending_signal[2] < Len(df) - 1
    /\ LoopOver => pending_signal = NoPending

\* C10 witness: the last bar gave a signal that the other gates would let pass
C10_Witness ==
    /\ pc = "post"
    /\ cooldown_sec = 0
    /\ "BUY" \in decide(strategy, prices)
    /\ ~RLt(portfolio.cash, RInt(MinBuyCash))
    /\ buy_signals >= 2

\* C11: a SELL is scheduled only when asset_qty > 0 and a BUY only when
\* cash >= 1000 on the signal bar; cash and asset_qty do not change between
\* the scheduling and the fill, so every SELL filled in the loop sells a
\* strictly positive quantity and every BUY fill starts from cash >= 1000.
C11_PositionGate ==
    [][/\ (pc = "decide" /\ pending_signal' # NoPending) =>
             /\ pending_signal'[1] = "SELL" => RLt(Zero, portfolio.asset_qty)
             /\ pending_signal'[1] = "BUY" => ~RLt(portfolio.cash, RInt(MinBuyCash))
       /\ (pc # "resolve" /\ (pending_signal # NoPending \/ pending_signal' # NoPending)) =>
             /\ portfolio'.cash = portfolio.cash
             /\ portfolio'.asset_qty = portfolio.asset_qty
       /\ (pc = "resolve" /\ pending_signal # NoPending /\ pending_signal[1] = "SELL") =>
             /\ RLt(Zero, portfolio.asset_qty)
             /\ RLt(Zero, LastTrade(trades').qty)
       /\ (pc = "resolve" /\ pending_signal # NoPending /\ pending_signal[1] = "BUY") =>
             ~RLt(portfolio.cash, RInt(MinBuyCash))
      ]_vars

\* C11 witness: a position bought in the loop has just been sold in the loop
C11_Witness ==
    /\ pc = "decide"
    /\ Len(trades) >= 2
    /\ LastTrade(trades).side = "SELL"
    /\ LastTrade(trades).ts = idx
    /\ RLt(Zero, LastTrade(trades).qty)
    /\ trades[Len(trades) - 1].side = "BUY"

\* C12: execute_market called with a side other than BUY or SELL raises the
\* ValueError: it returns no Trade and leaves cash, asset_qty, last_price and
\* last_trade_ts of the portfolio as they were.
C12_UnknownSideRaises ==
    /\ [](\A side \in PluggableActions \ {"BUY", "SELL"} :
            LET res == execute_market(portfolio, side, RInt(1), idx, fee_rate,
                                      OrderCash(portfolio, order_ratio), strategy.name)
            IN  /\ res.raised
                /\ "trade" \notin DOMAIN res
                /\ res.pf = portfolio)
    /\ [][(pc = "resolve" /\ pending_signal # NoPending
             /\ pending_signal[1] \notin {"BUY", "SELL"}) =>
                /\ portfolio'.cash = portfolio.cash
                /\ portfolio'.asset_qty = portfolio.asset_qty
                /\ portfolio'.last_price = portfolio.last_price
                /\ portfolio'.last_trade_ts = portfolio.last_trade_ts
                /\ trades' = trades
                /\ fail_log' = Append(fail_log, <<idx, "ValueError">>)
         ]_vars

\* C12 witness: the ValueError has just been raised while a position is held
C12_Witness ==
    /\ pc = "decide"
    /\ fail_log # <<>>
    /\ fail_log[Len(fail_log)] = <<idx, "ValueError">>
    /\ RLt(Zero, portfolio.asset_qty)

\* C13: every run that completes, also one without any trade, has created
\* exactly one result and handed it to BacktestHistory.add_result.
C13_OneResultPerRun ==
    /\ Len(history) <= 1
    /\ pc = "done" => Len(history) = 1

\* C14: when append_trade raises while a pending order is being filled, the
\* error reaches the caller of run_backtest: the run ends there instead of
\* going on with the bar.
C14_LedgerFailureSurfaced ==
    [][(pc = "resolve" /\ trades' # trades /\ ledger' = ledger) => pc' = "crashed"]_vars

\* C15: at every point of a run, also after a ledger append has failed, the
\* rows of the ledger are a prefix of the rows of the trade log, in the same
\* order.
C15_LedgerPrefixOfLog ==
    /\ Len(DataRows(ledger)) <= Len(trades)
    /\ \A k \in 1..Len(DataRows(ledger)) :
          DataRows(ledger)[k] = LedgerRow(trades[k])

C17_LastTradeTs ==
    portfolio.last_trade_ts = IF trades = <<>> THEN 0 ELSE LastTrade(trades).ts

\* C18: the cash and the asset_qty of the portfolio change only in the step
\* that calls execute_market, and then to what execute_market returns; the
\* mark-to-market, the strategy evaluation, the gates, the liquidation after
\* the loop and the benchmark leave them alone.
C18_OnlyEngineMutates ==
    [][(portfolio'.cash # portfolio.cash \/ portfolio'.asset_qty # portfolio.asset_qty) =>
          /\ pc = "resolve"
          /\ pending_signal # NoPending
          /\ portfolio' = execute_market(portfolio, pending_signal[1],
                                         ExecutionPrice(pending_signal[1], df[idx + 1].Open),
                                         idx, fee_rate, OrderCash(portfolio, order_ratio),
                                         strategy.name).pf
      ]_vars

\* the driver state the look-ahead claim is about
DriverState ==
    [portfolio |-> portfolio, pending_signal |-> pending_signal, trades |-> trades,
     portfolio_values |-> portfolio_values, counters |-> counters]

\* the driver state before the first bar
StateBeforeLoop ==
    [portfolio |-> Portfolio(RInt(initial_cash)), pending_signal |-> NoPending,
     trades |-> <<>>, portfolio_values |-> <<>>, counters |-> <<0, 0, 0, 0, 0>>]

\* the driver state after the last bar of seen, computed from the state s
\* before that bar, the bars seen so far and the length n of the series
AfterBar(s, seen, n) ==
    LET i == Len(seen) - 1
        bar == seen[Len(seen)]
        marked == [s.portfolio EXCEPT !.last_price = bar.Close]
        values == Append(s.portfolio_values, equity(marked))
        filled == s.pending_signal # NoPending
        res == execute_market(marked, s.pending_signal[1],
                              ExecutionPrice(s.pending_signal[1], bar.Open), i,
                              fee_rate, OrderCash(marked, order_ratio), strategy.name)
        pf == IF filled THEN res.pf ELSE marked
        log == IF filled /\ ~res.raised THEN Append(s.trades, res.trade) ELSE s.trades
        closes == [k \in 1..Len(seen) |-> seen[k].Close]
        action == CHOOSE a \in decide(strategy, closes) : TRUE
        signal == action \in {"BUY", "SELL"}
        terminal == i >= n - 1
        cooling == ~can_execute(i, pf.last_trade_ts, cooldown_sec)
        no_asset == action = "SELL" /\ pf.asset_qty = Zero
        no_cash == action = "BUY" /\ RLt(pf.cash, RInt(MinBuyCash))
        live == signal /\ ~terminal
        c == s.counters
    IN  [portfolio |-> pf,
         pending_signal |-> IF live /\ ~cooling /\ ~no_asset /\ ~no_cash
                            THEN <<action, i>> ELSE NoPending,
         trades |-> log,
         portfolio_values |-> values,
         counters |-> <<IF action = "BUY" THEN c[1] + 1 ELSE c[1],
                        IF action = "SELL" THEN c[2] + 1 ELSE c[2],
                        IF live /\ cooling THEN c[3] + 1 ELSE c[3],
                        IF live /\ ~cooling /\ no_asset THEN c[4] + 1 ELSE c[4],
                        IF live /\ ~cooling /\ ~no_asset /\ no_cash THEN c[5] + 1 ELSE c[5]>>]

\* the driver state after the bars seen, as a function of those bars and of
\* the length of the series alone
RECURSIVE Replay(_, _)
Replay(seen, n) ==
    IF seen = <<>> THEN StateBeforeLoop
    ELSE AfterBar(Replay(SubSeq(seen, 1, Len(seen) - 1), n), seen, n)

\* C19: no look-ahead. The decision at bar i is decide applied to the closes
\* of bars 0..i, and the driver state after bar i (portfolio, pending slot,
\* trade log, equity curve, signal counters) is a function of bars 0..i and
\* of the length of the series, so two series of one length that agree on
\* bars 0..i give the same state.
C19_NoLookAhead ==
    /\ pc = "decide" =>
          decide(strategy, price_history) =
             decide(strategy, [k \in 1..idx + 1 |-> df[k].Close])
    /\ pc \in {"mark", "post"} =>
          DriverState = Replay(SubSeq(df, 1, idx), Len(df))

\* C19 witness: the loop is over after a BUY and a SELL were filled in it
C19_Witness ==
    /\ pc = "post"
    /\ Len(trades) = 2
    /\ buy_signals >= 1
    /\ sell_signals >= 1
    /\ idx >= 4

\* the minimum window of a shipped strategy
MinWindow(s) ==
    IF s.kind \in {"SMA", "EMA"} THEN (IF s.fast > s.slow THEN s.fast ELSE s.slow)
    ELSE IF s.kind \in {"RSI", "Momentum"} THEN s.period + 1
    ELSE IF s.kind = "MACD" THEN s.slow + s.signal
    ELSE s.period

\* C20: each of the six strategy variants returns KEEP for every price
\* sequence shorter than its minimum window: max(fast, slow) for SMA and EMA,
\* period + 1 for RSI and Momentum, slow + signal for MACD, period for
\* Bollinger.
C20_KeepBelowMinWindow ==
    \A n \in 0..Len(prices) :
       n < MinWindow(strategy) => decide(strategy, SubSeq(prices, 1, n)) = {"KEEP"}

\* C20 witness: the MACD strategy has been asked on three bars, one fewer than
\* its minimum window, and has given no signal
C20_Witness ==
    /\ strategy.kind = "MACD"
    /\ idx = 3
    /\ pc \in {"mark", "post"}
    /\ MinWindow(strategy) = 4
    /\ buy_signals = 0
    /\ sell_signals = 0

\* the closes of the series rise strictly
StrictlyRising == \A k \in 1..Len(prices) - 1 : RLt(prices[k], prices[k + 1])

\* C21: on a strictly rising series of 30 bars with SMACrossover(5, 20) and
\* cooldown 0 the strategy keeps on bars 0..18, never signals SELL and
\* signals BUY on every bar from 19 on; the first fill is a BUY stamped 20 at
\* the open of bar 20 times 1.001.
C21_RisingSeries ==
    (StrictlyRising /\ strategy = SMACrossover(5, 20) /\ cooldown_sec = 0) =>
       /\ \A n \in 1..Len(prices) :
             decide(strategy, SubSeq(prices, 1, n)) =
                IF n - 1 <= 18 THEN {"KEEP"} ELSE {"BUY"}
       /\ sell_signals = 0
       /\ (idx < 20 \/ (idx = 20 /\ pc \in {"mark", "resolve"})) => trades = <<>>
       /\ (idx > 20 \/ (idx = 20 /\ pc = "decide")) =>
             /\ trades # <<>>
             /\ trades[1].side = "BUY"
             /\ trades[1].ts = 20
             /\ trades[1].price = RMul(df[21].Open, R(1001, 1000))

\* C21 witness: the first order has just been filled on bar 20
C21_Witness ==
    /\ Len(df) = RisingBars
    /\ StrictlyRising
    /\ pc = "decide"
    /\ idx = 20
    /\ Len(trades) = 1
    /\ buy_signals = 1

\* C22: with fee rate 0 and the whole cash as order cash (order ratio 1) a
\* BUY fill at price p > 0 leaves cash exactly 0 and asset_qty exactly the
\* cash before divided by p; 1,000,000 at price 100 gives 10,000 units.
C22_WholeCashBuy ==
    /\ [](LET pf == Portfolio(RInt(1000000))
              res == execute_market(pf, "BUY", RInt(100), 1, Zero,
                                    OrderCash(pf, One), strategy.name)
          IN  /\ res.pf.cash = Zero
              /\ res.pf.asset_qty = RInt(10000)
              /\ res.trade.qty = RInt(10000))
    /\ [][(pc = "resolve" /\ pending_signal # NoPending /\ pending_signal[1] = "BUY"
             /\ fee_rate = Zero /\ order_ratio = One) =>
                LET p == LastTrade(trades').price
                IN  /\ RLt(Zero, p)
                    /\ portfolio'.cash = Zero
                    /\ portfolio'.asset_qty = RDiv(portfolio.cash, p)
         ]_vars

\* C22 witness: the whole cash has just been spent on a BUY without fee
C22_Witness ==
    /\ pc = "decide"
    /\ fee_rate = Zero
    /\ order_ratio = One
    /\ trades # <<>>
    /\ LastTrade(trades).side = "BUY"
    /\ LastTrade(trades).ts = idx
    /\ portfolio.cash = Zero
    /\ RLt(Zero, portfolio.asset_qty)

\* C23: can_execute(t, t, cooldown) is false for every cooldown > 0 and true
\* for cooldown 0, and with cooldown 0 it is true exactly when
\* now_ts >= last_trade_ts; a signal on the bar of the last fill is dropped by
\* the cooldown gate when the cooldown is positive and not when it is 0.
C23_CanExecuteSameTs ==
    /\ [](/\ \A t \in 0..MaxBars, cooldown \in 0..3 :
                can_execute(t, t, cooldown) <=> (cooldown = 0)
          /\ \A now_ts \in 0..MaxBars, last_trade_ts \in 0..MaxBars :
                can_execute(now_ts, last_trade_ts, 0) <=> (now_ts >= last_trade_ts))
    /\ [][(pc = "decide" /\ idx = portfolio.last_trade_ts) =>
             /\ cooldown_sec > 0 =>
                   /\ pending_signal' = NoPending
                   /\ blocked_by_no_asset' = blocked_by_no_asset
                   /\ blocked_by_no_cash' = blocked_by_no_cash
             /\ cooldown_sec = 0 => blocked_by_cooldown' = blocked_by_cooldown
         ]_vars

\* C23 witness: with cooldown 1 a signal of bar 0, where now_ts and
\* last_trade_ts are both 0, has been dropped by the cooldown gate
C23_Witness ==
    /\ cooldown_sec = 1
    /\ idx = 1
    /\ pc = "mark"
    /\ portfolio.last_trade_ts = 0
    /\ blocked_by_cooldown = 1

\* C24: in the results file the k-th result stored since the last clear has
\* id k, so the ids are pairwise distinct; get_by_id(k) returns exactly that
\* result, and None for an id that was not assigned.
C24_SequentialIds ==
    LET stored == load_history(history)
    IN  /\ \A k \in 1..Len(stored) :
               /\ stored[k].id = k
               /\ get_by_id(history, k) = stored[k]
        /\ \A k, other \in 1..Len(stored) :
               stored[k].id = stored[other].id => k = other
        /\ \A result_id \in 0..(MaxResults + 1) :
               result_id \notin 1..Len(stored) => get_by_id(history, result_id) = None

\* three results are stored, the second differs from the first
C24_Witness ==
    /\ pc = "menu"
    /\ Len(history) = 3
    /\ get_by_id(history, 2).profit_rate # get_by_id(history, 1).profit_rate
    /\ get_by_id(history, 3).id = 3

C26_NoShortPosition ==
    /\ ~IsNegative(portfolio.asset_qty)
    /\ pc \in {"report", "balance", "done"} => portfolio.asset_qty = Zero

\* a run that bought a part of its cash, was liquidated and has finished
C26_Witness ==
    /\ pc = "done"
    /\ order_ratio # One
    /\ trades # <<>>
    /\ LastTrade(trades).rule_name = LiquidationName(strategy.name)
    /\ portfolio.asset_qty = Zero

\* C27: the loop always terminates: the bar index goes from 0 to N-1 in steps
\* of one, each bar is processed once (one mark-to-market per bar), then the
\* liquidation check is made once and the run finishes.
C27_LoopTerminates ==
    /\ <>(pc \in {"done", "crashed"})
    /\ [](pc \in {"mark", "resolve", "decide"} =>
             /\ idx \in 0..(Len(df) - 1)
             /\ Len(portfolio_values) = IF pc = "mark" THEN idx ELSE idx + 1)
    /\ [](LoopOver => (idx = Len(df) /\ Len(portfolio_values) = Len(df)))
    /\ [][idx' = idx + 1]_idx
    /\ [][pc' # pc]_vars
    /\ [][pc = "post" => pc' \in {"report", "crashed"}]_vars
    /\ [][(pc \in {"report", "balance", "done", "crashed"}) =>
               (pc' \in {"report", "balance", "done", "crashed"})]_vars

\* a run over the longest series has finished after one pass over its bars
C27_Witness ==
    /\ pc = "done"
    /\ Len(df) = MaxBars
    /\ idx = Len(df)
    /\ Len(portfolio_values) = Len(df)

\* two variants whose band limits are met exactly by prices of the model
TieStrategies == {RSIStrategy(2, 25, 75), BollingerBandsStrategy(2, One)}

\* BUY iff fast > slow, SELL iff fast < slow, KEEP iff the two are equal
CrossoverRule(action, fast_value, slow_value) ==
    /\ action = "BUY" <=> RLt(slow_value, fast_value)
    /\ action = "SELL" <=> RLt(fast_value, slow_value)
    /\ action = "KEEP" <=> fast_value = slow_value

\* the tie rule of strategy s on the history seen
TieRule(s, seen) ==
    LET action == CHOOSE a \in decide(s, seen) : TRUE
    IN  /\ decide(s, seen) = {action}
        /\ (s.kind = "SMA" /\ Len(seen) >= s.slow) =>
               /\ CrossoverRule(action, compute_sma(seen, s.fast),
                                compute_sma(seen, s.slow))
               /\ CrossoverRule(decide_action(seen, s.fast, s.slow),
                                compute_sma(seen, s.fast), compute_sma(seen, s.slow))
        /\ (s.kind = "EMA" /\ Len(seen) >= s.slow) =>
               CrossoverRule(action, compute_ema(seen, s.fast),
                             compute_ema(seen, s.slow))
        /\ (s.kind = "MACD" /\ compute_macd(seen, s.fast, s.slow, s.signal) # None) =>
               LET macd_data == compute_macd(seen, s.fast, s.slow, s.signal)
               IN  macd_data.macd = macd_data.signal => action = "KEEP"
        /\ (s.kind = "RSI" /\ compute_rsi(seen, s.period) # None) =>
               LET rsi == compute_rsi(seen, s.period)
               IN  (~RLt(rsi, RInt(s.oversold)) /\ ~RLt(RInt(s.overbought), rsi))
                       => action = "KEEP"
        /\ (s.kind = "Bollinger" /\ Len(seen) >= s.period) =>
               LET bb == compute_bollinger_bands(seen, s.period, s.num_std)
                   distance == RSub(seen[Len(seen)], bb.middle)
                   width == RMul(RMul(bb.num_std, bb.num_std), bb.variance)
               IN  ~RLt(width, RMul(distance, distance)) => action = "KEEP"

RsiWindows == 1..3

\* none of the last window changes of the history is a fall, one is a rise
RisesOnly(seen, window) ==
    LET last == (Len(seen) - window)..(Len(seen) - 1)
    IN  /\ \A i \in last : ~RLt(seen[i + 1], seen[i])
        /\ \E i \in last : RLt(seen[i], seen[i + 1])

\* C29: compute_rsi returns None for fewer than window + 1 prices, and exactly
\* 100 when none of the last window changes is a fall and one is a rise.
C29_RsiHundred ==
    \A window \in RsiWindows :
       /\ compute_rsi(<<>>, window) = None
       /\ pc = "decide" =>
              LET seen == price_history
              IN  /\ Len(seen) < window + 1 => compute_rsi(seen, window) = None
                  /\ Len(seen) >= window + 1 => compute_rsi(seen, window) # None
                  /\ (Len(seen) >= window + 1 /\ RisesOnly(seen, window)) =>
                         compute_rsi(seen, window) = RInt(100)

\* the RSI strategy is asked after a flat bar and a rise: the index is 100 and
\* it signals SELL
C29_Witness ==
    /\ pc = "decide"
    /\ strategy.kind = "RSI"
    /\ Len(price_history) = strategy.period + 1
    /\ RisesOnly(price_history, strategy.period)
    /\ price_history[1] = price_history[2]
    /\ compute_rsi(price_history, strategy.period) = RInt(100)
    /\ decide(strategy, price_history) = {"SELL"}

\* the bars, among the first n, on which the strategy gives a BUY or SELL
SignalBars(n) ==
    {bar \in 0..(n - 1) :
        decide(strategy, SubSeq(prices, 1, bar + 1)) \cap {"BUY", "SELL"} # {}}

\* the number of bars the strategy has been asked on
BarsDecided == IF pc \in {"mark", "resolve", "decide"} THEN idx ELSE Len(df)

\* the signals of the bars decided so far are all counted, and each is a
\* terminal-bar signal, a blocked signal, or a recorded order (which is pending
\* or was resolved into a fill or a failed fill)
SignalsAccounted ==
    LET terminal == IF BarsDecided = Len(df) /\ (Len(df) - 1) \in SignalBars(Len(df))
                    THEN 1 ELSE 0
        pending == IF pending_signal = NoPending THEN 0 ELSE 1
        resolved == trade_count + Len(fail_log)
    IN  /\ buy_signals + sell_signals = Cardinality(SignalBars(BarsDecided))
        /\ buy_signals + sell_signals =
               terminal + blocked_by_cooldown + blocked_by_no_asset
               + blocked_by_no_cash + resolved + pending

\* the ways the signal of the bar being decided is accounted for in the step
SignalOutcomes ==
    LET blocked(before, after) == IF after = before + 1 THEN 1 ELSE 0
    IN  (IF idx >= Len(df) - 1 THEN 1 ELSE 0)
        + blocked(blocked_by_cooldown, blocked_by_cooldown')
        + blocked(blocked_by_no_asset, blocked_by_no_asset')
        + blocked(blocked_by_no_cash, blocked_by_no_cash')
        + (IF pending_signal' # NoPending THEN 1 ELSE 0)

\* the signal of the bar is inside the cooldown and fails the position gate
FailsBothGates ==
    /\ idx < Len(df) - 1
    /\ ~can_execute(idx, portfolio.last_trade_ts, cooldown_sec)
    /\ \/ Signals = {"SELL"} /\ portfolio.asset_qty = Zero
       \/ Signals = {"BUY"} /\ RLt(portfolio.cash, RInt(MinBuyCash))

\* C30: buy_signals + sell_signals is the number of bars with a BUY or SELL
\* decision; each signal is accounted for in exactly one way (terminal bar, one
\* of the three blocked counters, or the pending order); a signal that fails
\* the cooldown and the position gate is counted as cooldown-blocked only.
C30_SignalAccounting ==
    /\ []SignalsAccounted
    /\ [][(pc = "decide" /\ Signals # {}) =>
             /\ buy_signals' + sell_signals' = buy_signals + sell_signals + 1
             /\ SignalOutcomes = 1
             /\ blocked_by_cooldown' \in {blocked_by_cooldown, blocked_by_cooldown + 1}
             /\ blocked_by_no_asset' \in {blocked_by_no_asset, blocked_by_no_asset + 1}
             /\ blocked_by_no_cash' \in {blocked_by_no_cash, blocked_by_no_cash + 1}
             /\ FailsBothGates =>
                    /\ blocked_by_cooldown' = blocked_by_cooldown + 1
                    /\ blocked_by_no_asset' = blocked_by_no_asset
                    /\ blocked_by_no_cash' = blocked_by_no_cash]_vars

\* a finished run in which a SELL signal came with nothing held and inside the
\* cooldown and was counted as cooldown-blocked only, and one came on the last bar
C30_Witness ==
    /\ pc = "done"
    /\ sell_signals >= 1
    /\ trades = <<>>
    /\ blocked_by_cooldown >= 1
    /\ blocked_by_no_asset = 0
    /\ (Len(df) - 1) \in SignalBars(Len(df))
    /\ buy_signals + sell_signals = blocked_by_cooldown + 1

\* cash and quantity after the first k trades of the log that are stamped
\* before bar, starting from the initial cash
RECURSIVE PositionBefore(_, _)
PositionBefore(bar, k) ==
    IF k = 0 THEN [cash |-> RInt(initial_cash), qty |-> Zero]
    ELSE LET before == PositionBefore(bar, k - 1)
             t == trades[k]
             value == RMul(t.price, t.qty)
         IN  IF t.ts >= bar THEN before
             ELSE IF t.side = "BUY"
             THEN [cash |-> RSub(RSub(before.cash, value), t.fee),
                   qty |-> RAdd(before.qty, t.qty)]
             ELSE [cash |-> RSub(RAdd(before.cash, value), t.fee),
                   qty |-> RSub(before.qty, t.qty)]

\* C31: after the loop the equity curve has one entry per bar, and the entry
\* of bar i is cash + asset_qty * close(i) as they are before the pending order
\* of bar i is resolved: a fill on bar i first shows in the entry of bar i + 1.
C31_EquityCurve ==
    /\ [](pc = "post" =>
             /\ Len(portfolio_values) = Len(df)
             /\ \A bar \in 0..(Len(df) - 1) :
                    LET held == PositionBefore(bar, Len(trades))
                    IN  portfolio_values[bar + 1] =
                            RAdd(held.cash, RMul(held.qty, df[bar + 1].Close)))
    /\ [][IF pc = "mark"
          THEN /\ portfolio_values' =
                     Append(portfolio_values,
                            RAdd(portfolio.cash,
                                 RMul(portfolio.asset_qty, df[idx + 1].Close)))
               /\ portfolio'.cash = portfolio.cash
               /\ portfolio'.asset_qty = portfolio.asset_qty
               /\ trades' = trades
          ELSE portfolio_values' = portfolio_values]_vars

\* the loop is over; the first fill was on a bar before the last one, the entry
\* of that bar is still the initial cash and the entry of the next bar is not
C31_Witness ==
    /\ pc = "post"
    /\ trades # <<>>
    /\ trades[1].ts < Len(df) - 1
    /\ portfolio_values[trades[1].ts + 1] = RInt(initial_cash)
    /\ portfolio_values[trades[1].ts + 2] # RInt(initial_cash)

\* C32: a BUY filled in the loop has price open(fill bar) * 1.001 and a SELL
\* open(fill bar) * 0.999, so a BUY fills strictly above and a SELL strictly
\* below the open; the order cash of a BUY is the cash at the fill times the
\* order ratio.
C32_SlippageDirection ==
    /\ [](\A k \in 1..Len(trades) :
             LET t == trades[k]
                 open_price == df[t.ts + 1].Open
             IN  t.rule_name = strategy.name =>
                    /\ t.side \in {"BUY", "SELL"}
                    /\ t.side = "BUY" =>
                           /\ t.price = RMul(open_price, R(1001, 1000))
                           /\ RLt(open_price, t.price)
                    /\ t.side = "SELL" =>
                           /\ t.price = RMul(open_price, R(999, 1000))
                           /\ RLt(t.price, open_price))
    /\ [][(pc = "resolve" /\ pending_signal # NoPending /\ pending_signal[1] = "BUY") =>
             /\ Len(trades') = Len(trades) + 1
             /\ LastTrade(trades').ts = idx
             /\ RMul(LastTrade(trades').price, LastTrade(trades').qty)
                   = RMul(portfolio.cash, order_ratio)]_vars

\* a run that filled a BUY with a part of its cash and then a SELL in the loop
C32_Witness ==
    /\ Len(trades) >= 2
    /\ order_ratio # One
    /\ trades[1].side = "BUY"
    /\ trades[2].side = "SELL"
    /\ trades[2].rule_name = strategy.name
    /\ RLt(trades[2].price, df[trades[2].ts + 1].Open)

\* C33: after reset_all, get_config gives the documented default parameters of
\* every strategy, and after reset_to_default(s) those of s, whatever
\* update_config calls were made before on this or another manager.
C33_ResetRestoresDefaults ==
    /\ last_call.op = "reset_all" =>
          \A name \in StrategyNames :
             get_config(last_call.manager, name) = DocumentedDefaults[name]
    /\ last_call.op = "reset_to_default" =>
          get_config(last_call.manager, last_call.name)
              = DocumentedDefaults[last_call.name]

\* the trades of the log that were filled in the loop
LoopFills == {k \in 1..Len(trades) : trades[k].rule_name = strategy.name}

\* C34: the trade log is append-only and ordered: every step of the driver
\* leaves it unchanged or appends exactly one trade to it, keeping the trades
\* it held; bar indices never decrease along the log; every fill of the loop
\* is stamped with a bar index of at least 1.
C34_AppendOnlyOrdered ==
    /\ [](/\ \A k \in 2..Len(trades) : trades[k - 1].ts <= trades[k].ts
          /\ \A k \in LoopFills : trades[k].ts >= 1)
    /\ [][\/ trades' = trades
          \/ (/\ Len(trades') = Len(trades) + 1
              /\ SubSeq(trades', 1, Len(trades)) = trades)]_vars

\* C34 witness: a finished run whose log holds two fills of the loop on
\* different bars, followed by the forced liquidation
C34_Witness ==
    /\ pc = "done"
    /\ Cardinality(LoopFills) >= 2
    /\ \A j, k \in LoopFills : j < k => trades[j].ts < trades[k].ts
    /\ Len(trades) > Cardinality(LoopFills)

\* the append of trade t to the ledger raised: a loop fill whose bar has a
\* write failure printed, or the liquidation of a run the failure ended
LedgerAppendFailed(t) ==
    IF t.rule_name = strategy.name
    THEN \E k \in 1..Len(fail_log) : fail_log[k] = <<t.ts, "OSError">>
    ELSE pc = "crashed"

\* the trades of the run whose append_trade call succeeded, in call order
AppendedTrades == SelectSeq(trades, LAMBDA t : ~LedgerAppendFailed(t))

\* run_backtest has passed clear_previous_trades
LedgerCleared ==
    /\ pc \notin {"start", "refused", "abandoned"}
    /\ ~(pc = "crashed" /\ trades = <<>>)

\* C35: run_backtest deletes the ledger of the previous run before the loop,
\* and after n successful append_trade calls of the run the ledger file is
\* exactly one header row followed by the n data rows of those trades in the
\* order of the calls (no file when n = 0), with no row of an earlier run.
C35_LedgerShape ==
    /\ [](LedgerCleared =>
            LET n == Len(AppendedTrades)
            IN  /\ Len(ledger) = IF n = 0 THEN 0 ELSE n + 1
                /\ n > 0 => IsHeaderRow(ledger[1])
                /\ \A k \in 1..n :
                      /\ ~IsHeaderRow(ledger[k + 1])
                      /\ ledger[k + 1] = LedgerRow(AppendedTrades[k]))
    /\ [][(pc = "start" /\ pc' = "mark") => ledger' = <<>>]_vars

\* C35 witness: a run that started over the ledger of an earlier run has
\* ended with two rows of its own under the header
C35_Witness ==
    /\ pc = "done"
    /\ Len(load_history(history)) = 2
    /\ Len(trades) = 2
    /\ Len(ledger) = 3
    /\ DataRows(ledger) # DataRows(PreviousLedger)

\* ranked is what get_rankings may return for the stored results and the limit
RankingOf(stored, ranked, limit) ==
    /\ Len(ranked) <= limit
    /\ Len(ranked) = limit \/ Len(ranked) = Len(stored)
    /\ \A k \in 1..Len(ranked) : \E j \in 1..Len(stored) : stored[j] = ranked[k]
    /\ \A j, k \in 1..Len(ranked) : j # k => ranked[j].id # ranked[k].id
    /\ \A k \in 2..Len(ranked) :
          ~RLt(ranked[k - 1].profit_rate, ranked[k].profit_rate)
    /\ \A j \in 1..Len(stored) :
          (\A k \in 1..Len(ranked) : ranked[k].id # stored[j].id) =>
             \A k \in 1..Len(ranked) :
                ~RLt(ranked[k].profit_rate, stored[j].profit_rate)

\* C36: get_rankings(limit) returns at most limit of the stored results (all of
\* them when there are no more than limit), ordered by profit_rate from the
\* largest down, and no stored result left out has a larger profit_rate than
\* a returned one.
C36_RankingsTopByProfitRate ==
    last_call.op = "get_rankings" =>
       RankingOf(load_history(history), last_call.returned, last_call.amount.n)

\* C36 witness: three results are stored, the last one with the largest and the
\* first one with the smallest profit_rate, and the two best have been asked for
C36_Witness ==
    /\ last_call.op = "get_rankings"
    /\ last_call.amount = RInt(2)
    /\ Len(history) = 3
    /\ LET stored == load_history(history)
       IN  /\ RLt(stored[1].profit_rate, stored[2].profit_rate)
           /\ RLt(stored[2].profit_rate, stored[3].profit_rate)
           /\ last_call.returned = <<stored[3], stored[2]>>

\* C37: add_result never loses a stored result: after add_result(r) the stored
\* history is the history stored before with r appended, one result longer,
\* also when the read of the history file fails.
C37_AddResultKeepsHistory ==
    [][last_call'.op = "add_result" =>
          LET before == load_history(history)
              after == load_history(history')
          IN  /\ Len(after) = Len(before) + 1
              /\ SubSeq(after, 1, Len(before)) = before]_vars

\* C38: the trade log never holds two SELL trades in a row, and every SELL
\* trade of the log, filled in the loop or the forced liquidation, has a
\* quantity above zero.
C38_SellsHavePosition ==
    /\ \A k \in 2..Len(trades) :
          ~(trades[k - 1].side = "SELL" /\ trades[k].side = "SELL")
    /\ \A k \in 1..Len(trades) :
          trades[k].side = "SELL" => RLt(Zero, trades[k].qty)

\* C38 witness: a position was bought, sold in the loop, bought again and
\* liquidated at the end
C38_Witness ==
    /\ pc = "done"
    /\ Len(trades) = 4
    /\ trades[2].side = "SELL"
    /\ trades[2].rule_name = strategy.name
    /\ trades[3].side = "BUY"
    /\ trades[4].rule_name = LiquidationName(strategy.name)

\* C39: at the end of every completed run nothing is held, so the final
\* equity that is reported and stored equals portfolio.cash, and that is the
\* value update_balance writes to the account; a run is refused at its start
\* exactly when the balance is under 10000, and the refusal changes neither the
\* balance nor the ledger nor the history.
C39_FinalEquityIsBalance ==
    /\ [](/\ pc \in {"report", "balance", "done"} =>
               /\ portfolio.asset_qty = Zero
               /\ equity(portfolio) = portfolio.cash
          /\ pc = "done" =>
               /\ balance = portfolio.cash
               /\ trades # <<>> =>
                     LastTrade(load_history(history)).final_equity = balance
          /\ pc = "refused" => RLt(balance, RInt(MinRunBalance))
          /\ pc \in {"mark", "resolve", "decide", "post", "report", "balance", "done"} =>
               ~RLt(RInt(initial_cash), RInt(MinRunBalance)))
    /\ [][pc' = "refused" =>
             /\ balance' = balance
             /\ ledger' = ledger
             /\ history' = history]_vars

\* C39 witness: a run that started over the files of an earlier run has traded
\* and ended with another balance than it started from
C39_Witness ==
    /\ pc = "done"
    /\ Len(load_history(history)) = 2
    /\ trades # <<>>
    /\ balance # RInt(initial_cash)
    /\ balance = portfolio.cash

\* C40: deposit(amount) and withdraw(amount) with amount <= 0, and withdraw
\* with an amount above the cash of the account, return False and leave cash,
\* total_deposit and total_withdrawal as they were; a call that returns True
\* moves exactly the amount; so the cash never becomes negative by deposits
\* and withdrawals.
C40_RefusedCallsChangeNothing ==
    /\ [](~IsNegative(balance))
    /\ [][last_call'.op \in {"deposit", "withdraw"} =>
             LET call == last_call'
                 refused == \/ ~RLt(Zero, call.amount)
                            \/ (call.op = "withdraw" /\ RLt(balance, call.amount))
             IN  /\ call.returned = ~refused
                 /\ refused =>
                       /\ balance' = balance
                       /\ total_deposit' = total_deposit
                       /\ total_withdrawal' = total_withdrawal
                 /\ (call.returned /\ call.op = "deposit") =>
                       /\ balance' = RAdd(balance, call.amount)
                       /\ total_deposit' = RAdd(total_deposit, call.amount)
                       /\ total_withdrawal' = total_withdrawal
                 /\ (call.returned /\ call.op = "withdraw") =>
                       /\ balance' = RSub(balance, call.amount)
                       /\ total_withdrawal' = RAdd(total_withdrawal, call.amount)
                       /\ total_deposit' = total_deposit]_vars

\* C40 witness: after the whole cash was withdrawn, a withdrawal of more than
\* is left has been refused
C40_Witness ==
    /\ last_call.op = "withdraw"
    /\ ~last_call.returned
    /\ RLt(Zero, last_call.amount)
    /\ RLt(balance, last_call.amount)
    /\ RLt(Zero, total_withdrawal)

====
